---- MODULE Spec2Model ----
(***************************************************************************)
(* A model of toolong's log engine: the reverse line-break scan of a log   *)
(* file (LogFile.scan_line_breaks), the scan worker (LogLines.run_scan),   *)
(* the engine's message handlers (on_new_breaks, on_scan_progress,         *)
(* on_scan_complete, on_line_read), the tail watcher and its callback      *)
(* (SelectorWatcher.run, LogLines.start_tail), the line reader thread      *)
(* (LineReader) and the multi-file merge (LogLines.merge_log_files).       *)
(*                                                                         *)
(* A file is a sequence of bytes (integers).  Offsets are 0-based as in    *)
(* the source; the byte at offset o of a sequence s is s[o + 1].           *)
(***************************************************************************)
EXTENDS Integers, Sequences, FiniteSets, TLC

\* ------------------------------------------------------------------ bounds

\* Longest file at the time it is opened.
MaxInitLen == 3
\* Longest the file ever gets (append-only growth stops there).
MaxLen == 4
\* Longest run of bytes another process appends in one write.
MaxAppend == 2
\* scan_line_breaks and scan_timestamps may yield a batch only when the batch
\* length is a multiple of this (1000 in the source, log_file.py:200 and :237);
\* scaled down so that scans of several batches, and their cancellation,
\* happen within MaxInitLen.
BatchEvery == 2
\* Longest file of a merged view.
MaxMergeLen == 3
\* Longest file, at any time, where the line reader's threads are followed.
MaxReaderLen == 3
\* Bytes open_compressed writes per pass of its loop (256 KiB in the source,
\* log_file.py:101), scaled down so that a file takes several passes.
DecompressSize == 2
\* Most error callbacks that are followed for one file.
MaxErrors == 2
\* Capacity of the line reader's request queue where stop() is followed
\* (Queue(maxsize=1000) in the source, log_lines.py:69), scaled down so that
\* the queue fills.
QueueCap == 2
\* Longest file whose lines are requested where stop() is followed.
MaxStopLen == 2
\* Longest line handed to the timestamp scanner.
MaxScanLen == 3
\* Longest file that is navigated by time.
MaxNavLen == 4
\* Longest file that is searched.
MaxSearchLen == 3
\* Greatest height of the widget's content region, in lines.
MaxHeight == 2
\* Longest file where the caches are followed.
MaxCacheLen == 1
\* Messages queued for the engine beyond which no pass of the line reader
\* is followed.
MaxMessages == 2

\* --------------------------------------------------------------- constants

NL == 10
CR == 13
TAB == 9
SPACE == 32
\* str.expandtabs(4)
TabSize == 4
\* U+FFFD, what decode(errors="replace") gives for a byte that is not UTF-8
ReplacementChar == 65533
\* Queue(maxsize=1000)
QueueMaxSize == 1000
\* chunk_size = 64 * 1024
ChunkSize == 65536
\* FormatParser.parse: `if len(line) > 10_000`
ParseMaxLen == 10000
\* action_navigate gives up after this many lines without a timestamp.
SeekLimit == 10
\* Python's None, where the source gives an int or None (pointer_line,
\* ScanProgress.scan_start); no int of the model is below -1.
None == -2

\* The bytes files are made of: a newline and a letter.
Alphabet == {NL, 97}

Min(a, b) == IF a < b THEN a ELSE b
Max(a, b) == IF a > b THEN a ELSE b

\* All sequences over S of length lo..hi.
SeqsOf(S, lo, hi) == UNION {[1..n -> S] : n \in lo..hi}

\* textual.geometry.clamp
clamp(value, minimum, maximum) ==
    LET lo == Min(minimum, maximum)
        hi == Max(minimum, maximum)
    IN IF value < lo THEN lo ELSE IF value > hi THEN hi ELSE value

\* ------------------------------------------------------ LogFile, pure parts

\* os.pread(fileno, end - start, start): the bytes at offsets [start, end)
\* that the file holds.
get_raw(data, start, end) ==
    IF start >= end THEN <<>>
    ELSE SubSeq(data, start + 1, Min(end, Len(data)))

\* bytes.decode("utf-8", errors="replace"), for single-byte input: an ASCII
\* byte is its own character, any other byte is replaced.
decode(bytes) ==
    [i \in 1..Len(bytes) |-> IF bytes[i] < 128 THEN bytes[i] ELSE ReplacementChar]

RECURSIVE lstrip(_)
lstrip(s) ==
    IF s # <<>> /\ s[1] \in {NL, CR} THEN lstrip(Tail(s)) ELSE s

RECURSIVE rstrip(_)
rstrip(s) ==
    IF s # <<>> /\ s[Len(s)] \in {NL, CR}
    THEN rstrip(SubSeq(s, 1, Len(s) - 1))
    ELSE s

\* str.strip("\n\r"): both ends.
strip(s) == rstrip(lstrip(s))

\* str.expandtabs(4): a tab becomes spaces up to the next multiple of 4
\* columns; the column restarts after a newline or carriage return.
RECURSIVE expandtabs(_, _)
expandtabs(s, col) ==
    IF s = <<>> THEN <<>>
    ELSE IF s[1] = TAB
         THEN LET n == TabSize - (col % TabSize)
              IN [i \in 1..n |-> SPACE] \o expandtabs(Tail(s), 0)
         ELSE IF s[1] \in {NL, CR}
              THEN <<s[1]>> \o expandtabs(Tail(s), 0)
              ELSE <<s[1]>> \o expandtabs(Tail(s), col + 1)

\* A mutant of get_line: the newline that starts the span is kept.
get_line_nostrip(data, start, end) ==
    expandtabs(decode(get_raw(data, start, end)), 0)

\* LogFile.get_line
get_line(data, start, end) ==
    expandtabs(strip(decode(get_raw(data, start, end))), 0)

\* mmap.rfind(b"\n", 0, position): the greatest offset below position that
\* holds a newline, -1 when there is none.
rfind(data, position) ==
    LET hits == {o \in 0..(position - 1) : data[o + 1] = NL}
    IN IF hits = {} THEN -1 ELSE CHOOSE o \in hits : \A p \in hits : p <= o

\* The offsets of the newlines of data at offsets [lo, hi), descending: what
\* the loop of scan_line_breaks appends while position runs from hi to lo.
RECURSIVE breaks_down(_, _, _)
breaks_down(data, lo, hi) ==
    LET p == rfind(data, hi)
    IN IF p < lo THEN <<>> ELSE <<p>> \o breaks_down(data, lo, p)

\* log_file.py:195, `log_mmap[-1] != "\n"`: log_mmap[-1] is an int and "\n"
\* a str, and in Python an int is never equal to a str, whatever the byte.
last_byte_differs(byte) == TRUE

\* A mutant of synthetic_break: the scan never adds the end of the file.
synthetic_break_never(data, size) == <<>>

\* log_file.py:195-196: the break the scan adds before it looks for newlines.
synthetic_break(data, size) ==
    IF last_byte_differs(data[size]) THEN <<size>> ELSE <<>>

\* watcher.scan_chunk
RECURSIVE scan_chunk_from(_, _, _)
scan_chunk_from(chunk, position, offset) ==
    IF offset >= Len(chunk) THEN <<>>
    ELSE IF chunk[offset + 1] = NL
         THEN <<position + offset>> \o scan_chunk_from(chunk, position, offset + 1)
         ELSE scan_chunk_from(chunk, position, offset + 1)

\* A mutant of scan_chunk: the scan stops at the first newline of the chunk.
scan_chunk_first(chunk, position) ==
    LET breaks == scan_chunk_from(chunk, position, 0)
    IN IF breaks = <<>> THEN <<>> ELSE <<breaks[1]>>

\* A mutant of scan_chunk: the offsets are those within the chunk.
scan_chunk_local(chunk, position) == scan_chunk_from(chunk, 0, 0)

scan_chunk(chunk, position) == scan_chunk_from(chunk, position, 0)

\* list.sort() of a list of integers (insertion sort).
RECURSIVE insert_sorted(_, _)
insert_sorted(x, s) ==
    IF s = <<>> THEN <<x>>
    ELSE IF x < s[1] THEN <<x>> \o s
         ELSE <<s[1]>> \o insert_sorted(x, Tail(s))

RECURSIVE sort(_)
sort(s) ==
    IF s = <<>> THEN <<>> ELSE insert_sorted(s[Len(s)], sort(SubSeq(s, 1, Len(s) - 1)))

\* ------------------------------------------------------------------- state

VARIABLES
    file_descriptors, \* PollWatcher._file_descriptors: the registered
                    \* descriptors, in the dict's insertion order
    poll_thread,    \* PollWatcher.run: where the thread is, the dict's size
                    \* when its iterator was made, the iterator's position
    fd_size,        \* descriptor -> size of its file now
    fd_position,    \* descriptor -> offset of the descriptor
    fd_notified,    \* descriptor -> size last passed to its callback
    files,          \* file id -> the bytes the file holds now (files only grow)
    size,           \* file id -> LogFile.size, set by LogFile.open
    compressed,     \* the single file is a gzip/bzip2 file (files holds what
                    \* it decompresses to)
    temp,           \* bytes open_compressed has written to its temporary file
    show_find,      \* LogLines.show_find (bound to LogView.show_find)
    find,           \* LogLines.find, the text of the find dialog
    regex,          \* LogLines.regex
    case_sensitive, \* LogLines.case_sensitive
    timestamp_formats, \* TimestampScanner._timestamp_formats of the file
    missing,        \* the file ids whose path cannot be opened
    raw,            \* LogFile.get_raw without os.pread: where the caller is,
                    \* the offset it saved and the range it reads
    poll,           \* PollWatcher.run: where the thread is in its pass and
                    \* the position lseek(fileno, 0, SEEK_CUR) returned
    appending,      \* the merge worker has appended a row to _merge_lines
                    \* and not yet its break to the file's break vector
    render_cache,   \* LogLines._render_line_cache: <<key, strip>> with the
                    \* key <<span, is_pointer, find>>
    save_merge,     \* App.save_merge is a path (the --output-merge option)
    saver,          \* the worker thread of LogLines.save: its position, its
                    \* line_count argument and its loop variable line_no
    out_file,       \* the file at the path save_merge: whether it exists and
                    \* the characters it holds
    save_note,      \* the notification LogLines.save raised
    notified,       \* the error notifications raised: the ids of the files
                    \* that failed to open, and "save" for a failed save
    watcher_exit,   \* the watcher's _exit_event is set (close() has returned)
    wthread,        \* where the watcher thread is: "select" (the test of its
                    \* while loop and the wait for a readable descriptor),
                    \* "ready" (a descriptor was returned and the exit tests
                    \* were passed), "terminated"
    errors,         \* times the error callback of the file was called
    other_lag,      \* 1 when another file, which another view registered
                    \* with the same watcher, has bytes not yet read, else 0
    exit_event,     \* LineReader.exit_event is set
    reader,         \* where the LineReader thread is: "check" (the test of
                    \* its while loop), "get" (in queue.get), "terminated"
    stop,           \* where LineReader.stop is: "-" (not called), "put",
                    \* "join", "returned"
    merge,          \* LogLines._merge_lines is not None
    merge_lines,    \* LogLines._merge_lines: <<timestamp, line_no, file>>
    line_breaks,    \* LogLines._line_breaks: file id -> offsets
    line_count,     \* LogLines._line_count
    scanned_size,   \* LogLines._scanned_size
    scan_start,     \* LogLines._scan_start
    tail,           \* LogLines.tail
    pointer_line,   \* LogLines.pointer_line
    vheight,        \* LogLines.virtual_size.height
    pending_count,  \* count of the last PendingLines posted (0: none yet)
    mq,             \* LogLines' message queue
    worker,         \* the scan worker: "idle", "scanning", "done"
    cancelled,      \* worker.is_cancelled
    gen,            \* the running scan generator: [file, position, yielded]
    watching,       \* the file is registered with the watcher
    wpos,           \* offset of the watched file descriptor
    delivered,      \* offsets passed to the watcher's callback so far (history)
    rqueue,         \* LineReader.queue
    pending,        \* LineReader.pending
    line_cache,     \* LogLines._line_cache: set of <<key, line>>
    text_cache,     \* LogLines._text_cache: set of <<key, abbreviate, line>>
    installed,      \* <<key, line, caches cleared since>> of on_line_read,
                    \* until get_text asks for the key (history)
    last            \* the handler step just taken (history, for the properties)

vars == <<files, size, compressed, temp, missing, notified, raw, poll,
          file_descriptors, poll_thread, fd_size, fd_position, fd_notified,
          appending, render_cache,
          save_merge, saver,
          out_file, save_note, timestamp_formats,
          watcher_exit,
          wthread, errors, other_lag, exit_event, reader,
          stop, show_find, find, regex,
          case_sensitive, merge, merge_lines, line_breaks, line_count,
          scanned_size, scan_start, tail, pointer_line, vheight,
          pending_count, mq, worker, cancelled, gen, watching, wpos, delivered,
          rqueue, pending, line_cache, text_cache, installed, last>>

openVars == <<compressed, temp>>
fileVars == <<files, size, openVars>>
indexVars == <<line_breaks, line_count, scanned_size, scan_start>>
viewVars == <<tail, pointer_line, vheight, pending_count>>
scanVars == <<worker, cancelled, gen>>
watchVars == <<watching, wpos, delivered>>
cacheVars == <<text_cache, installed>>
readerVars == <<rqueue, pending, line_cache, cacheVars>>
mergeVars == <<merge, merge_lines>>
findVars == <<show_find, find, regex, case_sensitive>>
stopVars == <<exit_event, reader, stop>>
threadVars == <<watcher_exit, wthread, errors, other_lag>>
errVars == <<missing, notified>>
saveVars == <<save_merge, saver, out_file, save_note>>
seekVars == <<raw, poll>>
pollVars == <<file_descriptors, poll_thread, fd_size, fd_position, fd_notified>>
otherVars == <<fileVars, indexVars, viewVars, mq, scanVars, watchVars, readerVars,
               mergeVars, findVars, timestamp_formats, stopVars, threadVars,
               errVars, saveVars, seekVars, appending, render_cache, last>>

FileIds == DOMAIN files

\* LogLines.save has not been called.
NoSave == [at |-> "-", line_count |-> 0, line_no |-> 0]

\* No caller is in get_raw.
NoRaw == [at |-> "-", position |-> 0, start |-> 0, end |-> 0]

\* The polling thread is at the head of its loop.
NoPoll == [at |-> "loop", position |-> 0]

\* No file exists at the path.
NoFile == [exists |-> FALSE, data |-> <<>>]

\* ------------------------------------------------------- TimestampScanner

\* The characters of scanned lines: the digits 1 and 2, the digit 9 (a field
\* value no date has, such as month 99), and the full stop.
ScanAlphabet == {49, 50, 57, 46}
Digits == {49, 50, 57}

\* TIMESTAMP_FORMATS, two of its formats in their order: "fraction" is a
\* format with a fractional part (\d\.\d here, ...:\d{2}\.\d{3} in the
\* source) and "seconds" the format without it (\d here), which matches a
\* prefix of whatever "fraction" matches.
TIMESTAMP_FORMATS == <<"fraction", "seconds">>

\* re.search(regex, line).group(0): the leftmost match, the empty text
\* when there is none (no format matches the empty text).
regex_search(format, line) ==
    LET width == IF format = "fraction" THEN 3 ELSE 1
        fits(k) == IF format = "fraction"
                   THEN /\ line[k] \in Digits
                        /\ line[k + 1] = 46
                        /\ line[k + 2] \in Digits
                   ELSE line[k] \in Digits
        hits == {k \in 1..(Len(line) - width + 1) : fits(k)}
    IN IF hits = {} THEN <<>>
       ELSE LET k == CHOOSE h \in hits : \A x \in hits : h <= x
            IN SubSeq(line, k, k + width - 1)

\* parse_callable(match.group(0)): the instant in tenths, None when the
\* parser raises or returns None (a field out of range).
parse_callable(format, text) ==
    IF text[1] = 57 THEN None
    ELSE IF format = "fraction" THEN (text[1] - 48) * 10 + (text[3] - 48)
    ELSE (text[1] - 48) * 10

\* The loop of TimestampScanner.scan from position index of the format
\* list: <<timestamp, index of the format that gave it>>, <<None, 0>> when
\* no format gives one.
RECURSIVE scan_from(_, _, _)
scan_from(formats, index, line) ==
    IF index > Len(formats) THEN <<None, 0>>
    ELSE LET match == regex_search(formats[index], line)
         IN IF match # <<>> /\ parse_callable(formats[index], match) # None
            THEN <<parse_callable(formats[index], match), index>>
            ELSE scan_from(formats, index + 1, line)

\* `del formats[index:index+1]; formats.insert(0, timestamp_format)`, done
\* when the index is not the first.
move_to_front(formats, index) ==
    IF index <= 1 THEN formats
    ELSE <<formats[index]>> \o SubSeq(formats, 1, index - 1)
         \o SubSeq(formats, index + 1, Len(formats))

\* len(self.log_files) == 1
SingleFile == FileIds = {1}

\* The descriptors of the files opened in tabs of their own.
MaxPollFiles == 2
PollFiles == 1..MaxPollFiles

\* The polling thread at the top of its while loop, with no iterator.
PollIdle == [at |-> "while", used |-> 0, index |-> 0, fileno |-> 0]

NoStep == [op |-> "-", hit |-> FALSE, strip |-> <<>>, closed0 |-> FALSE, errors0 |-> 0, timestamp |-> 0, direction |-> 0, bell |-> FALSE, unit |-> "-", k |-> 0, count0 |-> 0, pointer0 |-> 0, breaks0 |-> 0,
           tail0 |-> FALSE, key |-> <<>>, line |-> <<>>, line0 |-> <<>>,
           requested |-> FALSE, fresh |-> FALSE, cleared0 |-> FALSE,
           block |-> FALSE, size |-> 0, size0 |-> 0, breaks |-> <<>>,
           delivered0 |-> {}]

\* ------------------------------------------------------- LogLines, queries

\* LogLines.line_count (property)
LineCount == IF merge THEN Len(merge_lines) ELSE line_count

\* LogLines.validate_pointer_line
validate_pointer_line(p, count) ==
    IF p = None THEN None
    ELSE IF p < 0 THEN 0
    ELSE IF p >= count THEN count - 1
    ELSE p

\* LogLines.get_log_file_from_index: <<log_file, index>>
get_log_file_from_index(index) ==
    IF merge /\ index >= -Len(merge_lines) /\ index < Len(merge_lines)
    THEN LET row == merge_lines[IF index >= 0 THEN index + 1
                                ELSE Len(merge_lines) + index + 1]
         IN <<row[3], row[2]>>
    ELSE <<1, index>>

\* A mutant of index_to_span: line 0 is taken to start at the first break.
index_to_span_from_break(index) ==
    LET fi == get_log_file_from_index(index)
        f == fi[1]
        b == line_breaks[f]
        i == clamp(fi[2], 0, Len(b))
    IN IF b = <<>> THEN <<f, scan_start, scan_start>>
       ELSE IF i = 0 THEN <<f, b[1], b[1]>>
       ELSE <<f, b[i], IF i < Len(b) THEN b[i + 1] ELSE Max(0, scanned_size - 1)>>

\* LogLines.index_to_span: <<log_file, start, end>>
index_to_span(index) ==
    LET fi == get_log_file_from_index(index)
        f == fi[1]
        b == line_breaks[f]
        i == clamp(fi[2], 0, Len(b))
    IN IF b = <<>> THEN <<f, scan_start, scan_start>>
       ELSE IF i = 0 THEN <<f, scan_start, b[1]>>
       ELSE <<f, b[i], IF i < Len(b) THEN b[i + 1] ELSE Max(0, scanned_size - 1)>>

\* LogLines.get_line_from_index_blocking
get_line_from_index_blocking(index) ==
    LET span == index_to_span(index)
    IN get_line(files[span[1]], span[2], span[3])

CacheKeys == {e[1] : e \in line_cache}

\* LineReader.request_line, on the pair <<pending, queue>>
request_line(pq, request) ==
    IF request \notin pq[1]
    THEN <<pq[1] \cup {request}, Append(pq[2], request)>>
    ELSE pq

\* LogLines.get_line, called for each index of indices in turn: a span that
\* is not in the line cache is requested from the line reader.
RECURSIVE get_lines(_, _)
get_lines(pq, indices) ==
    IF indices = <<>> THEN pq
    ELSE LET index == indices[1]
             span == index_to_span(index)
             next == IF span \in CacheKeys THEN pq
                     ELSE request_line(pq, <<span[1], index, span[2], span[3]>>)
         IN get_lines(next, Tail(indices))

\* A mutant of update_line_count: the count is not bounded below by 1.
update_line_count_unbounded(breaks) == Len(breaks)

\* LogLines.update_line_count
update_line_count(breaks) == Max(1, Len(breaks))

\* Message.post_message on LogLines: FIFO.
\* A mutant of post: the messages jump the queue.
post_first(queue, messages) == messages \o queue

post(queue, messages) == queue \o messages

NewBreaks(f, breaks, scanned, is_tail) ==
    [type |-> "NewBreaks", log_file |-> f, breaks |-> breaks,
     scanned_size |-> scanned, tail |-> is_tail]

ScanProgress(position) == [type |-> "ScanProgress", scan_start |-> position]

ScanComplete(sz, position) ==
    [type |-> "ScanComplete", size |-> sz, scan_start |-> position]

\* events.Callback of call_later(self.save, save_merge, line_count)
Callback(n) == [type |-> "Callback", line_count |-> n]

\* A mutant of LineRead: the message carries the index after the request's.
LineRead_next_index(index, f, start, end, line) ==
    [type |-> "LineRead", index |-> index + 1, log_file |-> f, start |-> start,
     end |-> end, line |-> line]

LineRead(index, f, start, end, line) ==
    [type |-> "LineRead", index |-> index, log_file |-> f, start |-> start,
     end |-> end, line |-> line]

\* ------------------------------------------- the scan worker, single file

\* The bytes the scan maps: mmap.mmap(fileno, size).
Mapped(f) == SubSeq(files[f], 1, size[f])

\* LogLines.run_scan up to the first batch: LogFile.open records the size;
\* an empty file completes at once, otherwise scan_line_breaks starts with the
\* position at the end of the file.
\* A mutant of open_raises: no open raises.
open_raises_never(f) == FALSE

\* open(self.path, "rb"), gzip.open or bz2.open raises for the file.
open_raises(f) == f \in missing

\* LogLines.run_scan when LogFile.open raises: an error notification, and
\* the worker returns.
ScanOpenFails ==
    /\ SingleFile
    /\ worker = "idle"
    /\ open_raises(1)
    /\ notified' = notified \cup {1}
    /\ worker' = "done"
    /\ last' = NoStep
    /\ UNCHANGED <<fileVars, indexVars, viewVars, mq, cancelled, gen, watchVars,
                   readerVars, mergeVars, findVars, timestamp_formats,
                   stopVars, threadVars, missing, saveVars, seekVars,
                   appending, render_cache, pollVars>>

ScanOpen ==
    /\ SingleFile
    /\ ~compressed
    /\ ~open_raises(1)
    /\ worker = "idle"
    /\ size' = [size EXCEPT ![1] = Len(files[1])]
    /\ IF Len(files[1]) = 0
       THEN /\ mq' = post(mq, <<ScanComplete(0, 0)>>)
            /\ worker' = "done"
            /\ gen' = gen
       ELSE /\ mq' = mq
            /\ worker' = "scanning"
            /\ gen' = [file |-> 1, position |-> Len(files[1]), line_no |-> 0,
                        yielded |-> FALSE]
    /\ last' = NoStep
    /\ UNCHANGED <<files, openVars, indexVars, viewVars, cancelled, watchVars,
                   readerVars, mergeVars, findVars, timestamp_formats,
                   stopVars, threadVars, errVars, saveVars, seekVars,
                   appending, render_cache, pollVars>>

\* LogLines.run_scan for a gzip/bzip2 file, up to open_compressed's loop: the
\* temporary file is created and the compressed file opened.
OpenCompressed ==
    /\ SingleFile
    /\ compressed
    /\ ~open_raises(1)
    /\ worker = "idle"
    /\ worker' = "opening"
    /\ temp' = 0
    /\ last' = NoStep
    /\ UNCHANGED <<files, size, compressed, indexVars, viewVars, mq, cancelled,
                   gen, watchVars, readerVars, mergeVars, findVars,
                   timestamp_formats, stopVars, threadVars, errVars,
                   saveVars, seekVars, appending, render_cache, pollVars>>

\* One pass of open_compressed's loop: a chunk is written to the temporary
\* file; if the worker is cancelled open returns False and run_scan returns.
DecompressChunk ==
    /\ worker = "opening"
    /\ temp < Len(files[1])
    /\ temp' = Min(temp + DecompressSize, Len(files[1]))
    /\ worker' = IF cancelled THEN "done" ELSE "opening"
    /\ last' = NoStep
    /\ UNCHANGED <<files, size, compressed, indexVars, viewVars, mq, cancelled,
                   gen, watchVars, readerVars, mergeVars, findVars,
                   timestamp_formats, stopVars, threadVars, errVars,
                   saveVars, seekVars, appending, render_cache, pollVars>>

\* The end of open_compressed and run_scan up to the first batch: the size
\* is that of the temporary file; an empty file completes at once.
DecompressEnd ==
    /\ worker = "opening"
    /\ temp = Len(files[1])
    /\ size' = [size EXCEPT ![1] = temp]
    /\ IF temp = 0
       THEN /\ mq' = post(mq, <<ScanComplete(0, 0)>>)
            /\ worker' = "done"
            /\ gen' = gen
       ELSE /\ mq' = mq
            /\ worker' = "scanning"
            /\ gen' = [file |-> 1, position |-> temp, line_no |-> 0,
                        yielded |-> FALSE]
    /\ last' = NoStep
    /\ UNCHANGED <<files, openVars, indexVars, viewVars, cancelled, watchVars,
                   readerVars, mergeVars, findVars, timestamp_formats,
                   stopVars, threadVars, errVars, saveVars, seekVars,
                   appending, render_cache, pollVars>>

\* What the generator holds in its batch when it resumes: the synthetic break
\* on its first run, nothing after a yield.
BatchPrefix ==
    IF gen.yielded THEN <<>> ELSE synthetic_break(Mapped(gen.file), size[gen.file])

\* log_file.py:200: get_length is bound to the first batch's __len__ and is
\* not rebound after a yield, so after the first yield it keeps returning that
\* batch's length (a multiple of the batch length); the clock decides alone.
MayYield(batch) == gen.yielded \/ Len(batch) % BatchEvery = 0

\* One pass of run_scan's loop over a batch yielded before the scan reached
\* the start of the file: ScanProgress and NewBreaks are posted, and a
\* cancelled worker leaves the loop and posts ScanComplete.
ScanYield ==
    /\ worker = "scanning"
    /\ SingleFile
    /\ LET f == gen.file
           found == breaks_down(Mapped(f), 0, gen.position)
       IN \E j \in 1..Len(found) :
            LET batch == BatchPrefix \o SubSeq(found, 1, j)
                position == found[j]
            IN /\ MayYield(batch)
               /\ IF cancelled
                  THEN /\ mq' = post(mq, <<ScanProgress(position),
                                           NewBreaks(f, batch, 0, FALSE),
                                           ScanComplete(size[f], position)>>)
                       /\ worker' = "done"
                  ELSE /\ mq' = post(mq, <<ScanProgress(position),
                                           NewBreaks(f, batch, 0, FALSE)>>)
                       /\ worker' = "scanning"
               /\ gen' = [gen EXCEPT !.position = position, !.yielded = TRUE]
    /\ last' = NoStep
    /\ UNCHANGED <<fileVars, indexVars, viewVars, cancelled, watchVars,
                   readerVars, mergeVars, findVars, timestamp_formats,
                   stopVars, threadVars, errVars, saveVars, seekVars,
                   appending, render_cache, pollVars>>

\* The last pass: the generator yields (0, batch) when no newline is left
\* below its position, run_scan posts the batch if it is not empty, the loop
\* ends and ScanComplete(size, 0) is posted.
ScanFinish ==
    /\ worker = "scanning"
    /\ SingleFile
    /\ LET f == gen.file
           batch == BatchPrefix \o breaks_down(Mapped(f), 0, gen.position)
       IN mq' = post(mq, <<ScanProgress(0)>>
                         \o (IF batch # <<>> THEN <<NewBreaks(f, batch, 0, FALSE)>>
                             ELSE <<>>)
                         \o <<ScanComplete(size[f], 0)>>)
    /\ worker' = "done"
    /\ gen' = [gen EXCEPT !.position = 0, !.yielded = TRUE]
    /\ last' = NoStep
    /\ UNCHANGED <<fileVars, indexVars, viewVars, cancelled, watchVars,
                   readerVars, mergeVars, findVars, timestamp_formats,
                   stopVars, threadVars, errVars, saveVars, seekVars,
                   appending, render_cache, pollVars>>

\* LogLines.action_dismiss while the scan worker runs: worker.cancel().
CancelScan ==
    /\ worker \in {"opening", "scanning"}
    /\ ~cancelled
    /\ cancelled' = TRUE
    /\ last' = NoStep
    /\ UNCHANGED <<fileVars, indexVars, viewVars, mq, worker, gen, watchVars,
                   readerVars, mergeVars, findVars, timestamp_formats,
                   stopVars, threadVars, errVars, saveVars, seekVars,
                   appending, render_cache, pollVars>>

\* ------------------------------------------------ the engine's handlers

\* A mutant of should_update_count: the engine's tail flag is not consulted.
should_update_count_without_tail(event_tail, is_tail, first) ==
    ~event_tail \/ first

\* log_lines.py:927: `if not event.tail or self.tail or first`
should_update_count(event_tail, is_tail, first) ==
    ~event_tail \/ is_tail \/ first

\* LogLines.on_new_breaks
OnNewBreaks ==
    /\ mq # <<>>
    /\ Head(mq).type = "NewBreaks"
    /\ LET event == Head(mq)
           f == event.log_file
           old == line_breaks[f]
           first == old = <<>>
           extended == old \o event.breaks
           breaks == IF event.tail THEN extended ELSE sort(extended)
           distance == vheight - pointer_line
           count == IF should_update_count(event.tail, tail, first)
                    THEN update_line_count(IF f = 1 THEN breaks ELSE line_breaks[1])
                    ELSE line_count
       IN /\ scanned_size' = Max(scanned_size, event.scanned_size)
          /\ pending_count' = IF ~tail /\ event.tail
                              THEN Len(old) - line_count + 1
                              ELSE pending_count
          /\ line_breaks' = [line_breaks EXCEPT ![f] = breaks]
          /\ line_count' = count
          /\ pointer_line' =
                IF tail /\ pointer_line # None
                THEN validate_pointer_line(vheight - distance, count)
                ELSE pointer_line
          /\ vheight' = IF tail THEN count ELSE vheight
          /\ last' = [NoStep EXCEPT
                      !.op = IF event.tail THEN "tail_breaks" ELSE "scan_breaks",
                      !.k = Len(event.breaks), !.count0 = line_count,
                      !.pointer0 = pointer_line, !.breaks0 = Len(old),
                      !.tail0 = tail]
    /\ mq' = Tail(mq)
    /\ UNCHANGED <<fileVars, scan_start, tail, scanVars, watchVars, readerVars,
                   mergeVars, findVars, timestamp_formats, stopVars,
                   threadVars, errVars, saveVars, seekVars, appending,
                   render_cache, pollVars>>

\* LogLines.on_scan_progress
OnScanProgress ==
    /\ mq # <<>>
    /\ Head(mq).type = "ScanProgress"
    /\ scan_start' = IF Head(mq).scan_start # None THEN Head(mq).scan_start
                     ELSE scan_start
    /\ mq' = Tail(mq)
    /\ last' = NoStep
    /\ UNCHANGED <<fileVars, line_breaks, line_count, scanned_size, viewVars,
                   scanVars, watchVars, readerVars, mergeVars, findVars,
                   timestamp_formats, stopVars, threadVars, errVars,
                   saveVars, seekVars, appending, render_cache, pollVars>>

\* LogLines.on_scan_complete; for one file that can be tailed it ends with
\* start_tail: Watcher.add seeks the descriptor to LogFile.size and registers.
OnScanComplete ==
    /\ mq # <<>>
    /\ Head(mq).type = "ScanComplete"
    /\ scanned_size' = Max(scanned_size, Head(mq).size)
    /\ scan_start' = Head(mq).scan_start
    /\ line_count' = update_line_count(line_breaks[1])
    /\ IF SingleFile
       THEN watching' = TRUE /\ wpos' = size[1] /\ delivered' = delivered
       ELSE UNCHANGED watchVars
    /\ mq' = Tail(mq)
    /\ last' = [NoStep EXCEPT !.op = "scan_complete"]
    /\ UNCHANGED <<fileVars, line_breaks, viewVars, scanVars, readerVars,
                   mergeVars, findVars, timestamp_formats, stopVars,
                   threadVars, errVars, saveVars, seekVars, appending,
                   render_cache, pollVars>>

\* A mutant of install_line: the line cache is left as it is.
install_line_nowhere(cache, key, line) == cache

\* log_lines.py:975: self._line_cache[(log_file, start, end)] = event.line
install_line(cache, key, line) ==
    {e \in cache : e[1] # key} \cup {<<key, line>>}

\* LogLines.on_line_read: the line is installed in the line cache and the
\* text cache entries of its key are discarded, as are the render cache
\* entries of its key and the current find text.
OnLineRead ==
    /\ mq # <<>>
    /\ Head(mq).type = "LineRead"
    /\ LET event == Head(mq)
           key == <<event.log_file, event.start, event.end>>
       IN /\ line_cache' = install_line(line_cache, key, event.line)
          /\ text_cache' = {e \in text_cache : e[1] # key}
          /\ render_cache' = {e \in render_cache :
                                 ~(e[1][1] = key /\ e[1][3] = find)}
          /\ installed' = {e \in installed : e[1] # key}
                             \cup {<<key, event.line, FALSE>>}
    /\ mq' = Tail(mq)
    /\ last' = NoStep
    /\ UNCHANGED <<fileVars, indexVars, viewVars, scanVars, watchVars, rqueue,
                   pending, mergeVars, findVars, timestamp_formats, stopVars,
                   threadVars, errVars, saveVars, seekVars, appending,
                   pollVars>>

\* LogLines.on_idle
OnIdle ==
    /\ mq = <<>>
    /\ vheight # LineCount
    /\ vheight' = LineCount
    /\ last' = NoStep
    /\ UNCHANGED <<fileVars, indexVars, tail, pointer_line, pending_count, mq,
                   scanVars, watchVars, readerVars, mergeVars, findVars,
                   timestamp_formats, stopVars, threadVars, errVars,
                   saveVars, seekVars, appending, render_cache, pollVars>>

\* LogLines.render_lines, in a window taller than the file (scroll_offset.y
\* is 0 and every line is in range): the virtual size is updated and every
\* line whose span is not in the line cache is requested.
RenderLines ==
    /\ LineCount > 0
    /\ LET indices == [i \in 1..LineCount |-> i - 1]
           pq == get_lines(<<pending, rqueue>>, indices)
       IN /\ Len(pq[2]) <= QueueMaxSize
          /\ pq # <<pending, rqueue>> \/ vheight # LineCount
          /\ pending' = pq[1]
          /\ rqueue' = pq[2]
    /\ vheight' = LineCount
    /\ last' = NoStep
    /\ UNCHANGED <<fileVars, indexVars, tail, pointer_line, pending_count, mq,
                   scanVars, watchVars, line_cache, cacheVars, mergeVars,
                   findVars, timestamp_formats, stopVars, threadVars, errVars,
                   saveVars, seekVars, appending, render_cache, pollVars>>

\* FormatParser.parse, for a line no format matches: the line is cut at
\* ParseMaxLen characters and returned.
parse(line) == SubSeq(line, 1, Min(Len(line), ParseMaxLen))

\* LogLines.get_text(index, abbreviate, block) for a line of the view (the
\* caches hold far fewer entries than their LRU sizes).  The text cache is
\* consulted, then the line cache; on a miss a blocking call reads the file
\* and fills the line cache, a non-blocking one requests the line and returns
\* the empty text.
GetText ==
    /\ LineCount > 0
    /\ \E index \in 0..(LineCount - 1), abbreviate \in BOOLEAN, block \in BOOLEAN :
         LET span == index_to_span(index)
             hit_text == {e \in text_cache : e[1] = span /\ e[2] = abbreviate}
             hit_line == {e \in line_cache : e[1] = span}
             miss == hit_text = {} /\ hit_line = {}
             new_line == IF hit_line # {} THEN (CHOOSE e \in hit_line : TRUE)[2]
                         ELSE get_line(files[span[1]], span[2], span[3])
             line == IF hit_text # {} THEN (CHOOSE e \in hit_text : TRUE)[3]
                     ELSE IF miss /\ ~block THEN <<>>
                     ELSE parse(new_line)
             pq == IF miss /\ ~block
                   THEN request_line(<<pending, rqueue>>,
                                     <<span[1], index, span[2], span[3]>>)
                   ELSE <<pending, rqueue>>
             was == {e \in installed : e[1] = span}
         IN /\ Len(pq[2]) <= QueueMaxSize
            /\ pending' = pq[1]
            /\ rqueue' = pq[2]
            /\ line_cache' = IF miss /\ block
                             THEN line_cache \cup {<<span, new_line>>}
                             ELSE line_cache
            /\ text_cache' = IF hit_text = {} /\ ~(miss /\ ~block)
                             THEN text_cache \cup {<<span, abbreviate, line>>}
                             ELSE text_cache
            /\ installed' = installed \ was
            /\ last' = IF was = {} THEN NoStep
                       ELSE [NoStep EXCEPT
                               !.op = "get_text", !.key = span, !.line = line,
                               !.requested = (pq[2] # rqueue), !.block = block,
                               !.fresh = TRUE,
                               !.line0 = (CHOOSE e \in was : TRUE)[2],
                               !.cleared0 = (CHOOSE e \in was : TRUE)[3]]
    /\ UNCHANGED <<fileVars, indexVars, viewVars, mq, scanVars, watchVars,
                   mergeVars, findVars, timestamp_formats, stopVars,
                   threadVars, errVars, saveVars, seekVars, appending,
                   render_cache, pollVars>>

\* LogLines.clear_caches, from watch_show_find, watch_case_sensitive,
\* watch_regex and notify_style_update.
ClearCaches ==
    /\ line_cache # {} \/ text_cache # {}
    /\ line_cache' = {}
    /\ text_cache' = {}
    /\ installed' = {<<e[1], e[2], TRUE>> : e \in installed}
    /\ last' = NoStep
    /\ UNCHANGED <<fileVars, indexVars, viewVars, mq, scanVars, watchVars,
                   rqueue, pending, mergeVars, findVars, timestamp_formats,
                   stopVars, threadVars, errVars, saveVars, seekVars,
                   appending, render_cache, pollVars>>

\* A mutant of TailOn: the line count is left as it was while tail was off.
TailOn_keeps_count ==
    /\ SingleFile
    /\ ~tail
    /\ tail' = TRUE
    /\ pointer_line' = None
    /\ last' = [NoStep EXCEPT !.op = "tail_on", !.count0 = line_count,
                              !.pointer0 = pointer_line]
    /\ UNCHANGED <<fileVars, indexVars, vheight,
                   pending_count, mq, scanVars, watchVars, readerVars, mergeVars,
                   findVars, timestamp_formats, stopVars, threadVars, errVars,
                   saveVars, seekVars, appending, render_cache, pollVars>>

\* LogLines.watch_tail(True), when LogView sets tail (TailFile(True), ctrl+t,
\* LogView.on_scan_complete).
TailOn ==
    /\ SingleFile
    /\ ~tail
    /\ tail' = TRUE
    /\ line_count' = update_line_count(line_breaks[1])
    /\ pointer_line' = None
    /\ last' = [NoStep EXCEPT !.op = "tail_on", !.count0 = line_count,
                              !.pointer0 = pointer_line]
    /\ UNCHANGED <<fileVars, line_breaks, scanned_size, scan_start, vheight,
                   pending_count, mq, scanVars, watchVars, readerVars, mergeVars,
                   findVars, timestamp_formats, stopVars, threadVars, errVars,
                   saveVars, seekVars, appending, render_cache, pollVars>>

\* LogLines.watch_tail(False), when LogView clears tail (TailFile(False), ctrl+t).
TailOff ==
    /\ SingleFile
    /\ tail
    /\ tail' = FALSE
    /\ last' = [NoStep EXCEPT !.op = "tail_off"]
    /\ UNCHANGED <<fileVars, indexVars, pointer_line, vheight, pending_count,
                   mq, scanVars, watchVars, readerVars, mergeVars, findVars,
                   timestamp_formats, stopVars, threadVars, errVars,
                   saveVars, seekVars, appending, render_cache, pollVars>>

\* LogLines.action_select with no pointer: the pointer is put on the line at
\* the top of the window (scroll_offset.y = 0).
ActionSelect ==
    /\ pointer_line = None
    /\ pointer_line' = validate_pointer_line(0, LineCount)
    /\ last' = NoStep
    /\ UNCHANGED <<fileVars, indexVars, tail, vheight, pending_count, mq,
                   scanVars, watchVars, readerVars, mergeVars, findVars,
                   timestamp_formats, stopVars, threadVars, errVars,
                   saveVars, seekVars, appending, render_cache, pollVars>>

\* LogLines.action_scroll_down with a pointer and the find dialog hidden:
\* advance_search(+1) takes the first line of range(pointer + 1, line_count),
\* and `pointer_line or scroll_offset.y` when the range is empty.
ActionScrollDown ==
    /\ pointer_line # None
    /\ LET next == IF pointer_line + 1 < LineCount THEN pointer_line + 1
                   ELSE IF pointer_line # 0 THEN pointer_line ELSE 0
       IN /\ validate_pointer_line(next, LineCount) # pointer_line
          /\ pointer_line' = validate_pointer_line(next, LineCount)
    /\ last' = NoStep
    /\ UNCHANGED <<fileVars, indexVars, tail, vheight, pending_count, mq,
                   scanVars, watchVars, readerVars, mergeVars, findVars,
                   timestamp_formats, stopVars, threadVars, errVars,
                   saveVars, seekVars, appending, render_cache, pollVars>>

\* LogView.dismiss_overlay with no dialog and no panel shown (DismissOverlay
\* is posted by LogLines.action_dismiss once the scan worker has ended).
DismissOverlay ==
    /\ worker = "done"
    /\ ~show_find
    /\ pointer_line # None
    /\ pointer_line' = None
    /\ last' = NoStep
    /\ UNCHANGED <<fileVars, indexVars, tail, vheight, pending_count, mq,
                   scanVars, watchVars, readerVars, mergeVars, findVars,
                   timestamp_formats, stopVars, threadVars, errVars,
                   saveVars, seekVars, appending, render_cache, pollVars>>

\* ------------------------------------------------- the file and its watcher

\* Another process appends to the file, which stays within limit bytes.
Grow(limit) ==
    /\ SingleFile
    /\ \E chunk \in SeqsOf(Alphabet, 1, MaxAppend) :
          /\ Len(files[1]) + Len(chunk) <= limit
          /\ files' = [files EXCEPT ![1] = files[1] \o chunk]
    /\ last' = NoStep
    /\ UNCHANGED <<size, openVars, indexVars, viewVars, mq, scanVars, watchVars,
                   readerVars, mergeVars, findVars, timestamp_formats,
                   stopVars, threadVars, errVars, saveVars, seekVars,
                   appending, render_cache, pollVars>>

\* One pass of a watcher's run over a descriptor that has bytes to read,
\* after lseek(fileno, 0, SEEK_CUR) returned position: the chunk is read at
\* the descriptor's offset, which is at, and scanned, and the callback
\* size_changed of LogLines.start_tail asks for the last k lines
\* (get_line_from_index(line_count - offset) for offset = 1..k) and posts
\* NewBreaks(tail=True).  Its sleep while the message queue is long only
\* delays its return.
size_changed_at(position, at) ==
    LET chunk == SubSeq(files[1], at + 1,
                        Min(at + ChunkSize, Len(files[1])))
        breaks == scan_chunk(chunk, position)
        indices == [offset \in 1..Len(breaks) |-> LineCount - offset]
        pq == get_lines(<<pending, rqueue>>, indices)
    IN /\ Len(pq[2]) <= QueueMaxSize
       /\ pending' = pq[1]
       /\ rqueue' = pq[2]
       /\ mq' = post(mq, <<NewBreaks(1, breaks, position + Len(chunk), TRUE)>>)
       /\ wpos' = at + Len(chunk)
       /\ delivered' = delivered \cup {breaks[i] : i \in 1..Len(breaks)}
       /\ last' = [NoStep EXCEPT !.op = "size_changed",
                                 !.size = position + Len(chunk),
                                 !.size0 = position,
                                 !.breaks = breaks,
                                 !.delivered0 = delivered,
                                 !.closed0 = watcher_exit,
                                 !.errors0 = errors]

\* The pass of a watcher whose descriptor no other thread moves: the chunk
\* is read at the position lseek returned.
size_changed_pass == size_changed_at(wpos, wpos)

\* The pass taken in one step, from the test of the loop to the return of
\* the callback, while the watcher is not being closed.
WatcherRead ==
    /\ watching
    /\ wpos < Len(files[1])
    /\ wthread = "select"
    /\ ~watcher_exit
    /\ size_changed_pass
    /\ UNCHANGED <<fileVars, indexVars, viewVars, scanVars, watching,
                   line_cache, cacheVars, mergeVars, findVars,
                   timestamp_formats, stopVars, threadVars, errVars,
                   saveVars, seekVars, appending, render_cache, pollVars>>

\* ---------------------------------------------------------- the line reader

\* One pass of LineReader.run that gets a request: it leaves the pending
\* set, the line is read from the file and posted as LineRead.  Passes are
\* taken while fewer than MaxMessages messages are queued, which keeps the
\* message queue of the model finite.
ReaderServe ==
    /\ reader = "check"
    /\ ~exit_event
    /\ rqueue # <<>>
    /\ Len(mq) < MaxMessages
    /\ LET request == Head(rqueue)
           f == request[1]
       IN /\ pending' = pending \ {request}
          /\ mq' = post(mq, <<LineRead(request[2], f, request[3], request[4],
                                       get_line(files[f], request[3], request[4]))>>)
    /\ rqueue' = Tail(rqueue)
    /\ last' = NoStep
    /\ UNCHANGED <<fileVars, indexVars, viewVars, scanVars, watchVars,
                   line_cache, cacheVars, mergeVars, findVars,
                   timestamp_formats, stopVars, threadVars, errVars,
                   saveVars, seekVars, appending, render_cache, pollVars>>

\* ------------------------------------------------------------ merge mode

\* The bytes of merged files: a newline and two timestamp texts.  A byte d in
\* TimestampBytes stands for a text one of TimestampScanner's formats
\* matches, read as the instant d.
TimestampBytes == {49, 50}
MergeAlphabet == {NL} \cup TimestampBytes

\* TimestampScanner.scan followed by `timestamp.timestamp() if timestamp
\* else 0.0` (log_file.py:231-233): the instant of the first timestamp text of
\* the line, 0 when the line holds none.
RECURSIVE timestamp_of(_)
timestamp_of(line) ==
    IF line = <<>> THEN 0
    ELSE IF line[1] \in TimestampBytes THEN line[1]
    ELSE timestamp_of(Tail(line))

\* mmap.readline() at offset position: up to and including the next newline,
\* or up to the end of the mapping.
readline(data, position) ==
    LET ends == {e \in (position + 1)..Len(data) : data[e] = NL}
        end == IF ends = {} THEN Len(data)
               ELSE CHOOSE e \in ends : \A x \in ends : e <= x
    IN SubSeq(data, position + 1, end)

\* What scan_timestamps appends, in order, from offset position and line
\* number line_no on: <<line_no, end position, timestamp>> for each line.
RECURSIVE timestamp_rows(_, _, _)
timestamp_rows(data, position, line_no) ==
    LET line_bytes == readline(data, position)
    IN IF line_bytes = <<>> THEN <<>>
       ELSE <<<<line_no, position + Len(line_bytes), timestamp_of(decode(line_bytes))>>>>
            \o timestamp_rows(data, position + Len(line_bytes), line_no + 1)

\* list.sort(key=itemgetter(0, 1)) of the merge rows: a stable sort by
\* (timestamp, line_no).
RowLess(x, y) == x[1] < y[1] \/ (x[1] = y[1] /\ x[2] < y[2])

RECURSIVE insert_row(_, _)
insert_row(x, s) ==
    IF s = <<>> THEN <<x>>
    ELSE IF RowLess(x, s[Len(s)]) THEN insert_row(x, SubSeq(s, 1, Len(s) - 1)) \o <<s[Len(s)]>>
         ELSE s \o <<x>>

RECURSIVE sort_rows(_)
sort_rows(s) ==
    IF s = <<>> THEN <<>>
    ELSE insert_row(s[Len(s)], sort_rows(SubSeq(s, 1, Len(s) - 1)))

RECURSIVE SumSizes(_)
SumSizes(n) == IF n = 0 THEN 0 ELSE size[n] + SumSizes(n - 1)

\* total_size = sum(log_file.size for log_file in self.log_files)
TotalSize == SumSizes(Cardinality(FileIds))

\* The rows scan_timestamps has still to yield for file f, given that the
\* generator of gen.file has yielded the lines before gen.position.
RowsLeft(f) ==
    IF f < gen.file THEN <<>>
    ELSE IF f = gen.file THEN timestamp_rows(Mapped(f), gen.position, gen.line_no)
    ELSE timestamp_rows(Mapped(f), 0, 0)

\* merge_log_files up to its scan loop: _merge_lines becomes a list, every
\* file is opened and gets an empty break vector; a file whose open raises
\* is reported, keeps size 0 and is not open (index_to_span gives it an
\* empty break vector with setdefault).
MergeOpen ==
    /\ ~SingleFile
    /\ worker = "idle"
    /\ merge' = TRUE
    /\ merge_lines' = <<>>
    /\ size' = [f \in FileIds |-> IF open_raises(f) THEN 0 ELSE Len(files[f])]
    /\ notified' = notified \cup {f \in FileIds : open_raises(f)}
    /\ line_breaks' = [f \in FileIds |-> <<>>]
    /\ worker' = "scanning"
    /\ gen' = [file |-> 1, position |-> 0, line_no |-> 0, yielded |-> FALSE]
    /\ last' = NoStep
    /\ UNCHANGED <<files, openVars, line_count, scanned_size, scan_start,
                   viewVars, mq,
                   cancelled, watchVars, readerVars, findVars,
                   timestamp_formats, stopVars, threadVars, missing,
                   saveVars, seekVars, appending, render_cache, pollVars>>

\* run_scan after merge_log_files has returned: with an output path, save
\* is scheduled on the engine with the line count of that moment.
save_later(rows) == IF save_merge THEN <<Callback(Len(rows))>> ELSE <<>>

\* One pass of merge_log_files' loop over a batch of scan_timestamps: the
\* rows and the breaks of the batch are appended, ScanProgress is posted, and
\* a cancelled worker posts ScanComplete and returns, without sorting.
MergeBatch ==
    /\ ~SingleFile
    /\ worker = "scanning"
    /\ \E f \in FileIds :
         /\ RowsLeft(f) # <<>>
         /\ \A g \in FileIds : g < f => RowsLeft(g) = <<>>
         /\ LET left == RowsLeft(f)
                fresh == f # gen.file
            IN \E j \in 1..Len(left) :
                 LET batch == SubSeq(left, 1, j)
                     break_position == batch[j][2]
                     position == SumSizes(f - 1)
                 IN /\ \/ j = Len(left)
                       \/ (gen.yielded /\ ~fresh)
                       \/ Len(batch) % BatchEvery = 0
                    /\ merge_lines' = merge_lines \o
                           [i \in 1..j |-> <<batch[i][3], batch[i][1], f>>]
                    /\ line_breaks' = [line_breaks EXCEPT ![f] =
                           line_breaks[f] \o [i \in 1..j |-> batch[i][2]]]
                    /\ gen' = [file |-> f, position |-> break_position,
                               line_no |-> batch[j][1] + 1, yielded |-> TRUE]
                    /\ IF cancelled
                       THEN /\ mq' = post(mq, <<ScanProgress(None),
                                    ScanComplete(TotalSize, position + break_position)>>
                                    \o save_later(merge_lines'))
                            /\ worker' = "done"
                       ELSE /\ mq' = post(mq, <<ScanProgress(None)>>)
                            /\ worker' = "scanning"
    /\ last' = NoStep
    /\ UNCHANGED <<fileVars, merge, line_count, scanned_size, scan_start,
                   viewVars, cancelled, watchVars, readerVars, findVars,
                   timestamp_formats, stopVars, threadVars, errVars,
                   saveVars, seekVars, appending, render_cache, pollVars>>

\* The file the merge worker scans next: the first that has rows left.
scanning_file == CHOOSE f \in FileIds :
    /\ RowsLeft(f) # <<>>
    /\ \A g \in FileIds : g < f => RowsLeft(g) = <<>>

\* merge_log_files, one row at a time: append_meta((timestamp, line_no,
\* log_file)), the first statement of the body of its inner loop.
MergeRowMeta ==
    /\ ~SingleFile
    /\ worker = "scanning"
    /\ ~appending
    /\ \E f \in FileIds : RowsLeft(f) # <<>>
    /\ LET f == scanning_file
           row == RowsLeft(f)[1]
       IN merge_lines' = Append(merge_lines, <<row[3], row[1], f>>)
    /\ appending' = TRUE
    /\ last' = NoStep
    /\ UNCHANGED <<fileVars, merge, indexVars, viewVars, mq, scanVars,
                   watchVars, readerVars, findVars, timestamp_formats,
                   stopVars, threadVars, errVars, saveVars, seekVars,
                   render_cache, pollVars>>

\* merge_log_files, one row at a time: append(break_position), the second
\* statement; after the last row of a file's batch ScanProgress is posted and
\* a cancelled worker posts ScanComplete and returns.
MergeRowBreak ==
    /\ ~SingleFile
    /\ worker = "scanning"
    /\ appending
    /\ LET f == scanning_file
           left == RowsLeft(f)
           row == left[1]
           position == SumSizes(f - 1)
       IN /\ line_breaks' = [line_breaks EXCEPT ![f] = Append(@, row[2])]
          /\ gen' = [file |-> f, position |-> row[2], line_no |-> row[1] + 1,
                     yielded |-> TRUE]
          /\ IF Len(left) > 1
             THEN mq' = mq /\ worker' = worker
             ELSE IF cancelled
             THEN /\ mq' = post(mq, <<ScanProgress(None),
                                      ScanComplete(TotalSize, position + row[2])>>
                                      \o save_later(merge_lines))
                  /\ worker' = "done"
             ELSE /\ mq' = post(mq, <<ScanProgress(None)>>)
                  /\ worker' = worker
    /\ appending' = FALSE
    /\ last' = NoStep
    /\ UNCHANGED <<fileVars, mergeVars, line_count, scanned_size, scan_start,
                   viewVars, cancelled, watchVars, readerVars, findVars,
                   timestamp_formats, stopVars, threadVars, errVars,
                   saveVars, seekVars, render_cache, pollVars>>

\* The end of merge_log_files, once every file is scanned: the rows are
\* sorted and ScanComplete(total_size, total_size) is posted.
MergeFinish ==
    /\ ~SingleFile
    /\ worker = "scanning"
    /\ \A f \in FileIds : RowsLeft(f) = <<>>
    /\ merge_lines' = sort_rows(merge_lines)
    /\ mq' = post(mq, <<ScanComplete(TotalSize, TotalSize)>>
                        \o save_later(merge_lines'))
    /\ worker' = "done"
    /\ last' = NoStep
    /\ UNCHANGED <<fileVars, merge, indexVars, viewVars, cancelled, gen,
                   watchVars, readerVars, findVars, timestamp_formats,
                   stopVars, threadVars, errVars, saveVars, seekVars,
                   appending, render_cache, pollVars>>

\* ------------------------------------- get_raw without positional read

\* LogFile.get_raw where os.pread is missing, up to its first lseek calls:
\* the per-file lock is taken, the descriptor's offset is saved and the
\* descriptor is moved to start.  The descriptor is the one the watcher reads.
GetRawSeek ==
    /\ SingleFile
    /\ raw.at = "-"
    /\ \E index \in 0..(LineCount - 1) :
         LET span == index_to_span(index)
         IN /\ span[2] < span[3]
            /\ raw' = [at |-> "seeked", position |-> wpos,
                       start |-> span[2], end |-> span[3]]
            /\ wpos' = span[2]
    /\ last' = NoStep
    /\ UNCHANGED <<fileVars, indexVars, viewVars, mq, scanVars, watching,
                   delivered, readerVars, mergeVars, findVars,
                   timestamp_formats, stopVars, threadVars, errVars,
                   saveVars, poll, appending, render_cache, pollVars>>

\* os.read(self.fileno, end - start), at the offset the descriptor has.
GetRawRead ==
    /\ raw.at = "seeked"
    /\ wpos' = Min(wpos + (raw.end - raw.start), Max(wpos, Len(files[1])))
    /\ raw' = [raw EXCEPT !.at = "read"]
    /\ last' = NoStep
    /\ UNCHANGED <<fileVars, indexVars, viewVars, mq, scanVars, watching,
                   delivered, readerVars, mergeVars, findVars,
                   timestamp_formats, stopVars, threadVars, errVars,
                   saveVars, poll, appending, render_cache, pollVars>>

\* The finally clause: os.lseek(self.fileno, position, os.SEEK_SET), and the
\* lock is released.
GetRawRestore ==
    /\ raw.at = "read"
    /\ wpos' = raw.position
    /\ raw' = NoRaw
    /\ last' = NoStep
    /\ UNCHANGED <<fileVars, indexVars, viewVars, mq, scanVars, watching,
                   delivered, readerVars, mergeVars, findVars,
                   timestamp_formats, stopVars, threadVars, errVars,
                   saveVars, poll, appending, render_cache, pollVars>>

\* PollWatcher.run: position = lseek(fileno, 0, SEEK_CUR).  The polling
\* thread takes no lock.  Passes are taken while fewer than MaxMessages
\* messages are queued, which keeps the message queue of the model finite.
PollSeek ==
    /\ watching
    /\ poll.at = "loop"
    /\ Len(mq) < MaxMessages
    /\ poll' = [at |-> "read", position |-> wpos]
    /\ last' = NoStep
    /\ UNCHANGED <<fileVars, indexVars, viewVars, mq, scanVars, watchVars,
                   readerVars, mergeVars, findVars, timestamp_formats,
                   stopVars, threadVars, errVars, saveVars, raw, appending,
                   render_cache, pollVars>>

\* PollWatcher.run: chunk = read(fileno, chunk_size) and, when the chunk is
\* not empty, scan_chunk(chunk, position) and the callback.
PollRead ==
    /\ poll.at = "read"
    /\ IF wpos < Len(files[1])
       THEN size_changed_at(poll.position, wpos)
       ELSE /\ last' = NoStep
            /\ UNCHANGED <<pending, rqueue, mq, wpos, delivered>>
    /\ poll' = NoPoll
    /\ UNCHANGED <<fileVars, indexVars, viewVars, scanVars, watching,
                   line_cache, cacheVars, mergeVars, findVars,
                   timestamp_formats, stopVars, threadVars, errVars,
                   saveVars, raw, appending, render_cache, pollVars>>

\* ---------------------------------------------------------- LogLines.save

\* The engine runs the callback: LogLines.save starts in a worker thread.
OnCallback ==
    /\ mq # <<>>
    /\ Head(mq).type = "Callback"
    /\ saver' = [at |-> "open", line_count |-> Head(mq).line_count, line_no |-> 0]
    /\ mq' = Tail(mq)
    /\ last' = NoStep
    /\ UNCHANGED <<fileVars, indexVars, viewVars, scanVars, watchVars,
                   readerVars, mergeVars, findVars, timestamp_formats,
                   stopVars, threadVars, errVars, save_merge, out_file,
                   save_note, seekVars, appending, render_cache, pollVars>>

\* open(path, "w"): the file is created, or truncated, and is empty.
SaveOpen ==
    /\ saver.at = "open"
    /\ out_file' = [exists |-> TRUE, data |-> <<>>]
    /\ saver' = [saver EXCEPT !.at = "write"]
    /\ last' = NoStep
    /\ UNCHANGED <<fileVars, indexVars, viewVars, scanVars, watchVars,
                   readerVars, mergeVars, findVars, timestamp_formats,
                   stopVars, threadVars, errVars, save_merge, mq, save_note,
                   seekVars, appending, render_cache, pollVars>>

\* `if line: file_out.write(f"{line}\n")`: what one pass of the loop writes.
written(line) == IF line # <<>> THEN line \o <<NL>> ELSE <<>>

\* One pass of the loop of save over range(line_count).
SaveWrite ==
    /\ saver.at = "write"
    /\ saver.line_no < saver.line_count
    /\ out_file' = [out_file EXCEPT !.data =
           @ \o written(get_line_from_index_blocking(saver.line_no))]
    /\ saver' = [saver EXCEPT !.line_no = @ + 1]
    /\ last' = NoStep
    /\ UNCHANGED <<fileVars, indexVars, viewVars, scanVars, watchVars,
                   readerVars, mergeVars, findVars, timestamp_formats,
                   stopVars, threadVars, errVars, save_merge, mq, save_note,
                   seekVars, appending, render_cache, pollVars>>

\* The loop has ended and the file is closed: the else branch notifies.
SaveEnd ==
    /\ saver.at = "write"
    /\ saver.line_no = saver.line_count
    /\ saver' = [saver EXCEPT !.at = "done"]
    /\ save_note' = "saved"
    /\ last' = NoStep
    /\ UNCHANGED <<fileVars, indexVars, viewVars, scanVars, watchVars,
                   readerVars, mergeVars, findVars, timestamp_formats,
                   stopVars, threadVars, errVars, save_merge, mq, out_file,
                   seekVars, appending, render_cache, pollVars>>

\* open or write raises (an OSError such as a full disk or a refused
\* permission): the with statement closes the file and the handler only
\* notifies, so what was written stays at the path.
SaveFails ==
    /\ saver.at \in {"open", "write"}
    /\ saver' = [saver EXCEPT !.at = "done"]
    /\ save_note' = "error"
    /\ last' = NoStep
    /\ UNCHANGED <<fileVars, indexVars, viewVars, scanVars, watchVars,
                   readerVars, mergeVars, findVars, timestamp_formats,
                   stopVars, threadVars, errVars, save_merge, mq, out_file,
                   seekVars, appending, render_cache, pollVars>>

\* ---------------------------------------------------------- specification

\* LogLines.__init__ for one file, which holds any bytes, is compressed or
\* not as kinds allows, and whose path cannot be opened if absent allows.
InitOne(maxlen, kinds, absent) ==
    /\ files \in [{1} -> SeqsOf(Alphabet, 0, maxlen)]
    /\ size = [f \in {1} |-> 0]
    /\ compressed \in kinds
    /\ temp = 0
    /\ file_descriptors = <<>>
    /\ poll_thread = PollIdle
    /\ fd_size = [f \in PollFiles |-> 0]
    /\ fd_position = [f \in PollFiles |-> 0]
    /\ fd_notified = [f \in PollFiles |-> 0]
    /\ render_cache = {}
    /\ appending = FALSE
    /\ raw = NoRaw
    /\ poll = NoPoll
    /\ save_merge = FALSE
    /\ saver = NoSave
    /\ out_file = NoFile
    /\ save_note = "-"
    /\ missing \in absent
    /\ notified = {}
    /\ watcher_exit = FALSE
    /\ wthread = "select"
    /\ errors = 0
    /\ other_lag = 0
    /\ exit_event = FALSE
    /\ reader = "check"
    /\ stop = "-"
    /\ timestamp_formats = TIMESTAMP_FORMATS
    /\ show_find = FALSE
    /\ find = <<>>
    /\ regex = FALSE
    /\ case_sensitive = FALSE
    /\ merge = FALSE
    /\ merge_lines = <<>>
    /\ line_breaks = [f \in {1} |-> <<>>]
    /\ line_count = 0
    /\ scanned_size = 0
    /\ scan_start = 0
    /\ tail = FALSE
    /\ pointer_line = None
    /\ vheight = 0
    /\ pending_count = 0
    /\ mq = <<>>
    /\ worker = "idle"
    /\ cancelled = FALSE
    /\ gen = [file |-> 1, position |-> 0, line_no |-> 0, yielded |-> FALSE]
    /\ watching = FALSE
    /\ wpos = 0
    /\ delivered = {}
    /\ rqueue = <<>>
    /\ pending = {}
    /\ line_cache = {}
    /\ text_cache = {}
    /\ installed = {}
    /\ last = NoStep

\* LogLines.__init__ for one ordinary file.
InitFiles(maxlen) == InitOne(maxlen, {FALSE}, {{}})

Init == InitFiles(MaxInitLen)

\* The engine's index of one file: the scan worker, the engine's handlers,
\* the view's settings, the growing file and its watcher.  The line reader's
\* thread is left to SpecReader: it reads and writes only rqueue, pending,
\* line_cache and LineRead messages, which no action here reads.
Next ==
    \/ ScanOpen
    \/ ScanYield
    \/ ScanFinish
    \/ CancelScan
    \/ OnNewBreaks
    \/ OnScanProgress
    \/ OnScanComplete
    \/ OnIdle
    \/ TailOn
    \/ TailOff
    \/ ActionSelect
    \/ ActionScrollDown
    \/ DismissOverlay
    \/ Grow(MaxLen)
    \/ WatcherRead

Spec == Init /\ [][Next]_vars

InitReader == InitFiles(1)

\* The three threads that share the line reader: the engine (render_lines,
\* the handlers), the watcher's callback and the reader itself.
NextReader ==
    \/ ScanOpen
    \/ ScanFinish
    \/ OnNewBreaks
    \/ OnScanProgress
    \/ OnScanComplete
    \/ OnLineRead
    \/ RenderLines
    \/ TailOn
    \/ Grow(MaxReaderLen)
    \/ WatcherRead
    \/ ReaderServe

SpecReader == InitReader /\ [][NextReader]_vars

\* ------------------------------------------------------------- searching

\* str.lower, on ASCII
lower(s) == [i \in 1..Len(s) |-> IF s[i] >= 65 /\ s[i] <= 90 THEN s[i] + 32 ELSE s[i]]

\* `needle in line`
contains(needle, line) ==
    \E k \in 0..(Len(line) - Len(needle)) :
        SubSeq(line, k + 1, k + Len(needle)) = needle

\* str.startswith
startswith(line, prefix) ==
    Len(prefix) <= Len(line) /\ SubSeq(line, 1, Len(prefix)) = prefix

\* The texts of the find dialog that are followed: empty, "a", "A" and "(".
Finds == {<<>>, <<97>>, <<65>>, <<40>>}

\* re.compile raises for the pattern: "(" is an unterminated group.
re_error(pattern) == \E i \in 1..Len(pattern) : pattern[i] = 40

\* re.match(pattern, line, flags) is not None, for a pattern of literal
\* characters: the match is anchored at the start of the string.
re_match(pattern, line, ignorecase) ==
    IF ignorecase THEN startswith(lower(line), lower(pattern))
    ELSE startswith(line, pattern)

\* re.finditer(pattern, line, flags) finds a match, for a pattern of literal
\* characters: the pattern matches some substring of the line.
matches_anywhere(pattern, line, ignorecase) ==
    IF ignorecase THEN contains(lower(pattern), lower(line))
    ELSE contains(pattern, line)

\* The strip render_line builds for a text: highlight_find is applied when
\* there is a find text and the dialog is shown; it marks the matches of an
\* expression (none when it is invalid) or of the words, and dims a text
\* that has no match.
rendered(text, f, show, is_regex, is_case) ==
    <<text,
      IF f = <<>> \/ ~show THEN "plain"
      ELSE IF is_regex /\ re_error(f) THEN "plain"
      ELSE IF matches_anywhere(f, text, ~is_case) THEN "match"
      ELSE "dim">>

\* LogLines.check_match
check_match(line) ==
    IF line = <<>> THEN TRUE
    ELSE IF regex
         THEN IF re_error(find) THEN TRUE
              ELSE re_match(find, line, ~case_sensitive)
         ELSE IF case_sensitive THEN contains(find, line)
              ELSE contains(lower(find), lower(line))

\* LogLines.render_line(y) for a line of the view (scroll_offset.y = 0): the
\* strip is taken from the render cache under the key (file, start, end,
\* is_pointer, find); on a miss it is built from get_text(index,
\* abbreviate=True, block=True), which fills the line and text caches, and
\* stored.  Misses are followed while the cache holds fewer than MaxRendered
\* strips (far fewer than its LRU size of 1000).
MaxRendered == 2

RenderLine ==
    /\ \E index \in 0..(LineCount - 1) :
         LET span == index_to_span(index)
             is_pointer == pointer_line # None /\ index = pointer_line
             cache_key == <<span, is_pointer, find>>
             hits == {e \in render_cache : e[1] = cache_key}
             hit_text == {e \in text_cache : e[1] = span /\ e[2] = TRUE}
             hit_line == {e \in line_cache : e[1] = span}
             new_line == IF hit_line # {} THEN (CHOOSE e \in hit_line : TRUE)[2]
                         ELSE get_line(files[span[1]], span[2], span[3])
             line == IF hit_text # {} THEN (CHOOSE e \in hit_text : TRUE)[3]
                     ELSE parse(new_line)
             row == IF hits # {} THEN (CHOOSE e \in hits : TRUE)[2]
                      ELSE rendered(line, find, show_find, regex, case_sensitive)
         IN /\ hits # {} \/ Cardinality(render_cache) < MaxRendered
            /\ render_cache' = render_cache \cup {<<cache_key, row>>}
            /\ line_cache' = IF hits = {} /\ hit_text = {} /\ hit_line = {}
                             THEN line_cache \cup {<<span, new_line>>}
                             ELSE line_cache
            /\ text_cache' = IF hits = {} /\ hit_text = {}
                             THEN text_cache \cup {<<span, TRUE, line>>}
                             ELSE text_cache
            /\ installed' = IF hits = {}
                            THEN {e \in installed : e[1] # span}
                            ELSE installed
            /\ last' = [NoStep EXCEPT !.op = "render_line", !.key = span,
                                      !.hit = (hits # {}), !.strip = row,
                                      !.line = line]
    /\ UNCHANGED <<fileVars, indexVars, viewVars, mq, scanVars, watchVars,
                   rqueue, pending, mergeVars, findVars, timestamp_formats,
                   stopVars, threadVars, errVars, saveVars, seekVars,
                   appending, pollVars>>

\* The text advance_search hands to check_match for line_no: the bytes of
\* the span, decoded.
search_line(line_no) ==
    LET span == index_to_span(line_no)
    IN decode(get_raw(files[span[1]], span[2], span[3]))

\* range(start_line, self.line_count) or range(start_line, -1, -1)
line_range(start_line, direction) ==
    IF direction = 1 THEN start_line..(LineCount - 1) ELSE 0..start_line

\* The first element of the range in iteration order.
first_of(range, direction) ==
    IF direction = 1 THEN CHOOSE n \in range : \A m \in range : n <= m
    ELSE CHOOSE n \in range : \A m \in range : n >= m

\* LogLines.advance_search(direction), from FindDialog.MovePointer and from
\* action_scroll_up / action_scroll_down with a pointer; scroll_y and height
\* are the scroll offset and the height of the content region.
AdvanceSearch ==
    \E direction \in {1, -1}, scroll_y \in 0..(LineCount - 1),
       height \in 1..MaxHeight :
        LET start_line ==
                IF pointer_line = None
                THEN IF direction = 1 THEN scroll_y ELSE scroll_y + height - 1
                ELSE pointer_line + direction
            range == line_range(start_line, direction)
            hits == {n \in range : check_match(search_line(n))}
        IN /\ IF show_find
              THEN IF hits # {}
                   THEN /\ pointer_line' =
                             validate_pointer_line(first_of(hits, direction),
                                                   LineCount)
                        /\ last' = [NoStep EXCEPT !.op = "advance_search",
                                        !.direction = direction,
                                        !.pointer0 = pointer_line]
                   ELSE /\ pointer_line' = pointer_line
                        /\ last' = [NoStep EXCEPT !.op = "advance_search",
                                        !.direction = direction,
                                        !.pointer0 = pointer_line,
                                        !.bell = TRUE]
              ELSE /\ pointer_line' =
                         validate_pointer_line(
                             IF range # {} THEN first_of(range, direction)
                             ELSE IF pointer_line \notin {None, 0}
                                  THEN pointer_line ELSE scroll_y,
                             LineCount)
                   /\ last' = [NoStep EXCEPT !.op = "advance_search",
                                   !.direction = direction,
                                   !.pointer0 = pointer_line]
    /\ UNCHANGED <<fileVars, indexVars, tail, vheight, pending_count, mq,
                   scanVars, watchVars, readerVars, mergeVars, findVars,
                   timestamp_formats, stopVars, threadVars, errVars,
                   saveVars, seekVars, appending, render_cache, pollVars>>

\* LogView.action_show_find_dialog / dismiss_filter_dialog / dismiss_overlay
\* switch show_find; LogLines.watch_show_find clears the caches and drops the
\* pointer when the dialog is hidden.
WatchShowFind ==
    /\ show_find' = ~show_find
    /\ line_cache' = {}
    /\ text_cache' = {}
    /\ installed' = {<<e[1], e[2], TRUE>> : e \in installed}
    /\ pointer_line' = IF show_find THEN None ELSE pointer_line
    /\ last' = NoStep
    /\ UNCHANGED <<fileVars, indexVars, tail, vheight, pending_count, mq,
                   scanVars, watchVars, rqueue, pending, mergeVars, find,
                   regex, case_sensitive, timestamp_formats, stopVars,
                   threadVars, errVars, saveVars, seekVars, appending,
                   render_cache, pollVars>>

\* LogView.filter_dialog_update: the dialog's text and flags are assigned;
\* watch_find drops the pointer when the text is empty, watch_regex and
\* watch_case_sensitive clear the caches.
FilterDialogUpdate ==
    \E text \in Finds, is_regex \in BOOLEAN, is_case \in BOOLEAN :
        /\ <<text, is_regex, is_case>> # <<find, regex, case_sensitive>>
        /\ find' = text
        /\ regex' = is_regex
        /\ case_sensitive' = is_case
        /\ pointer_line' = IF text # find /\ text = <<>> THEN None
                           ELSE pointer_line
        /\ IF is_regex # regex \/ is_case # case_sensitive
           THEN /\ line_cache' = {}
                /\ text_cache' = {}
                /\ installed' = {<<e[1], e[2], TRUE>> : e \in installed}
           ELSE UNCHANGED <<line_cache, text_cache, installed>>
        /\ last' = NoStep
    /\ UNCHANGED <<fileVars, indexVars, tail, vheight, pending_count, mq,
                   scanVars, watchVars, rqueue, pending, mergeVars, show_find,
                   timestamp_formats, stopVars, threadVars, errVars,
                   saveVars, seekVars, appending, render_cache, pollVars>>

\* The engine when on_scan_complete has handled the ScanComplete of an
\* uncancelled scan of one file of at most maxlen bytes, with nothing else
\* done since LogLines.__init__: the breaks are those run_scan posted,
\* sorted by on_new_breaks, and the file is registered with the watcher.
ScannedOver(alphabet, maxlen) ==
    /\ files \in [{1} -> SeqsOf(alphabet, 0, maxlen)]
    /\ size = [f \in {1} |-> Len(files[1])]
    /\ compressed = FALSE
    /\ temp = 0
    /\ file_descriptors = <<>>
    /\ poll_thread = PollIdle
    /\ fd_size = [f \in PollFiles |-> 0]
    /\ fd_position = [f \in PollFiles |-> 0]
    /\ fd_notified = [f \in PollFiles |-> 0]
    /\ render_cache = {}
    /\ appending = FALSE
    /\ raw = NoRaw
    /\ poll = NoPoll
    /\ save_merge = FALSE
    /\ saver = NoSave
    /\ out_file = NoFile
    /\ save_note = "-"
    /\ missing = {}
    /\ notified = {}
    /\ watcher_exit = FALSE
    /\ wthread = "select"
    /\ errors = 0
    /\ other_lag = 0
    /\ exit_event = FALSE
    /\ reader = "check"
    /\ stop = "-"
    /\ timestamp_formats = TIMESTAMP_FORMATS
    /\ show_find = FALSE
    /\ find = <<>>
    /\ regex = FALSE
    /\ case_sensitive = FALSE
    /\ merge = FALSE
    /\ merge_lines = <<>>
    /\ line_breaks = [f \in {1} |->
           IF files[1] = <<>> THEN <<>>
           ELSE sort(synthetic_break(files[1], Len(files[1]))
                     \o breaks_down(files[1], 0, Len(files[1])))]
    /\ line_count = update_line_count(line_breaks[1])
    /\ scanned_size = Len(files[1])
    /\ scan_start = 0
    /\ tail = FALSE
    /\ pointer_line = None
    /\ vheight = 0
    /\ pending_count = 0
    /\ mq = <<>>
    /\ worker = "done"
    /\ cancelled = FALSE
    /\ gen = [file |-> 1, position |-> 0, line_no |-> 0,
              yielded |-> files[1] # <<>>]
    /\ watching = TRUE
    /\ wpos = Len(files[1])
    /\ delivered = {}
    /\ rqueue = <<>>
    /\ pending = {}
    /\ line_cache = {}
    /\ text_cache = {}
    /\ installed = {}
    /\ last = [NoStep EXCEPT !.op = "scan_complete"]

\* The same, for files of the bytes of Alphabet.
Scanned(maxlen) == ScannedOver(Alphabet, maxlen)

InitCache == Scanned(MaxCacheLen)

\* The caches of a scanned file: get_text fills them and requests lines, the
\* line reader serves the requests, on_line_read installs the lines and
\* clear_caches empties the caches.
NextCache ==
    \/ OnLineRead
    \/ GetText
    \/ ClearCaches
    \/ ReaderServe

SpecCache == InitCache /\ [][NextCache]_vars

InitScan == InitOne(MaxInitLen, BOOLEAN, SUBSET {1})

\* The scan worker of one file, ordinary or compressed, its cancellation and
\* the engine's handlers.
NextScan ==
    \/ ScanOpen
    \/ ScanOpenFails
    \/ OpenCompressed
    \/ DecompressChunk
    \/ DecompressEnd
    \/ ScanYield
    \/ ScanFinish
    \/ CancelScan
    \/ OnNewBreaks
    \/ OnScanProgress
    \/ OnScanComplete

SpecScan == InitScan /\ [][NextScan]_vars

InitSearch == Scanned(MaxSearchLen)

\* The find dialog and the pointer over a scanned file.
NextSearch ==
    \/ AdvanceSearch
    \/ WatchShowFind
    \/ FilterDialogUpdate
    \/ ActionSelect
    \/ DismissOverlay

SpecSearch == InitSearch /\ [][NextSearch]_vars

MaxRenderLen == 1

InitRender == Scanned(MaxRenderLen)

\* The rows of a scanned file rendered while the find dialog and the pointer
\* change.
NextRender ==
    \/ RenderLine
    \/ WatchShowFind
    \/ FilterDialogUpdate
    \/ ActionSelect

SpecRender == InitRender /\ [][NextRender]_vars

\* ------------------------------------- the polling watcher and its tabs

MaxPollSize == 2

\* Watcher.add, called by LogLines.start_tail in the engine's thread when the
\* scan of a tab's file is complete: the descriptor is inserted into
\* _file_descriptors (no lock is taken) and moved to the end of the file.
WatcherAdd(f) ==
    /\ \A i \in 1..Len(file_descriptors) : file_descriptors[i] # f
    /\ file_descriptors' = Append(file_descriptors, f)
    /\ fd_position' = [fd_position EXCEPT ![f] = fd_size[f]]
    /\ UNCHANGED <<poll_thread, fd_size, fd_notified, otherVars>>

\* Another process appends a byte to the file of a tab.
PollGrow(f) ==
    /\ fd_size[f] < MaxPollSize
    /\ fd_size' = [fd_size EXCEPT ![f] = @ + 1]
    /\ UNCHANGED <<file_descriptors, poll_thread, fd_position, fd_notified,
                   otherVars>>

\* PollWatcher.run, "for fileno, watched_file in
\* self._file_descriptors.items()": the iterator is made, it remembers the
\* size the dict has now, and the first item is taken (the interpreter does
\* not switch threads between the two).  With nothing registered the else
\* clause sleeps and the while loop starts again.
PollIter ==
    /\ poll_thread.at = "while"
    /\ poll_thread' =
          IF file_descriptors = <<>>
          THEN PollIdle
          ELSE [at |-> "body", used |-> Len(file_descriptors), index |-> 2,
                fileno |-> file_descriptors[1]]
    /\ UNCHANGED <<file_descriptors, fd_size, fd_position, fd_notified,
                   otherVars>>

\* PollWatcher.run, the for statement takes the next item after the body has
\* run (lseek, read and the callback let other threads run).  A dict iterator
\* raises RuntimeError ("dictionary changed size during iteration") when the
\* dict's size is not the size it remembers; the for statement is outside the
\* try of the loop's body, so the error leaves run and the thread ends.  When
\* the items are exhausted the else clause sleeps and the while loop starts
\* again.
PollNext ==
    /\ poll_thread.at = "for"
    /\ poll_thread' =
          IF Len(file_descriptors) # poll_thread.used
          THEN [poll_thread EXCEPT !.at = "dead"]
          ELSE IF poll_thread.index > Len(file_descriptors)
          THEN PollIdle
          ELSE [poll_thread EXCEPT !.at = "body",
                                   !.fileno = file_descriptors[poll_thread.index],
                                   !.index = @ + 1]
    /\ UNCHANGED <<file_descriptors, fd_size, fd_position, fd_notified,
                   otherVars>>

\* PollWatcher.run, the body of the for loop: lseek and read; a chunk that is
\* not empty is passed to the callback with the size it ends at.  The
\* descriptors stay open here, so the except branch is not taken.
PollBody ==
    /\ poll_thread.at = "body"
    /\ LET f == poll_thread.fileno
           position == fd_position[f]
       IN IF position < fd_size[f]
          THEN /\ fd_position' = [fd_position EXCEPT ![f] = fd_size[f]]
               /\ fd_notified' = [fd_notified EXCEPT ![f] = fd_size[f]]
          ELSE UNCHANGED <<fd_position, fd_notified>>
    /\ poll_thread' = [poll_thread EXCEPT !.at = "for"]
    /\ UNCHANGED <<file_descriptors, fd_size, otherVars>>

MaxPollLen == 1
InitPoll == ScannedOver({NL}, MaxPollLen)

\* The polling watcher's thread, the engine registering the tabs' files as
\* their scans complete, and the files growing.
NextPoll ==
    \/ \E f \in PollFiles : WatcherAdd(f)
    \/ \E f \in PollFiles : PollGrow(f)
    \/ PollIter
    \/ PollNext
    \/ PollBody

SpecPoll == InitPoll /\ [][NextPoll]_vars

\* The bytes of the files searched with a regular expression: a newline,
\* "A", which the followed patterns "a" and "A" match or match without
\* regard to case, and "b", which they do not match.
MatchAlphabet == {NL, 65, 98}
MaxMatchLen == 3

InitMatch == ScannedOver(MatchAlphabet, MaxMatchLen)

SpecMatch == InitMatch /\ [][NextSearch]_vars

\* --------------------------------------------------- navigation by time

\* The bytes of navigated files: a newline, two timestamp texts (a byte d of
\* TimestampBytes is read as the instant d, in minutes) and a letter.
NavAlphabet == {NL, 97} \cup TimestampBytes

\* TimestampScanner.scan: the instant of the first timestamp text of the
\* line, None when the line holds none.
RECURSIVE scan(_)
scan(line) ==
    IF line = <<>> THEN None
    ELSE IF line[1] \in TimestampBytes THEN line[1]
    ELSE scan(Tail(line))

\* LogLines.get_timestamp
get_timestamp(line_index) ==
    LET span == index_to_span(line_index)
    IN scan(get_line(files[span[1]], span[2], span[3]))

\* timedelta(minutes=steps), timedelta(hours=steps) or
\* timedelta(hours=steps * 24), in minutes.
timedelta(steps, unit) ==
    IF unit = "m" THEN steps
    ELSE IF unit = "h" THEN steps * 60
    ELSE steps * 24 * 60

\* The first loop of action_navigate: the line at or after line_no that has
\* a timestamp, None when the search is given up.
RECURSIVE seek_timestamp(_, _)
seek_timestamp(line_no, count) ==
    IF get_timestamp(line_no) # None THEN line_no
    ELSE IF count + 1 >= LineCount \/ count + 1 > SeekLimit THEN None
    ELSE seek_timestamp(line_no + 1, count + 1)

\* A mutant of crossed: the target itself does not count.
crossed_strictly(timestamp, target, direction) ==
    IF direction = 1 THEN timestamp > target ELSE timestamp < target

\* `timestamp >= target_timestamp` forward, `<=` backward
crossed(timestamp, target, direction) ==
    IF direction = 1 THEN timestamp >= target ELSE timestamp <= target

\* The second loop of action_navigate: where line_no stops.
RECURSIVE walk(_, _, _)
walk(line_no, target, direction) ==
    IF direction = 1 /\ line_no >= LineCount THEN line_no
    ELSE IF direction = -1 /\ line_no <= 0 THEN line_no
    ELSE IF /\ get_timestamp(line_no) # None
            /\ crossed(get_timestamp(line_no), target, direction)
         THEN line_no
    ELSE walk(line_no + direction, target, direction)

\* LogLines.action_navigate(steps, unit), for the key bindings m, M, h, H, d
\* and D; scroll_y is the scroll offset.
ActionNavigate ==
    /\ \E steps \in {1, -1}, unit \in {"m", "h", "d"},
          scroll_y \in 0..(LineCount - 1) :
        LET initial_line_no == IF pointer_line = None THEN scroll_y
                               ELSE pointer_line
            from == seek_timestamp(initial_line_no, 0)
            direction == IF steps > 0 THEN 1 ELSE -1
            target == get_timestamp(from) + timedelta(steps, unit)
        IN /\ pointer_line' =
                IF from = None THEN pointer_line
                ELSE validate_pointer_line(
                         walk(from + direction, target, direction), LineCount)
           /\ last' = [NoStep EXCEPT !.op = "navigate", !.k = steps,
                           !.unit = unit, !.pointer0 = initial_line_no,
                           !.bell = (from = None)]
    /\ UNCHANGED <<fileVars, indexVars, tail, vheight, pending_count, mq,
                   scanVars, watchVars, readerVars, mergeVars, findVars,
                   timestamp_formats, stopVars, threadVars, errVars,
                   saveVars, seekVars, appending, render_cache, pollVars>>

InitNav == ScannedOver(NavAlphabet, MaxNavLen)

\* The pointer over a scanned file, moved by time and by line.
NextNav ==
    \/ ActionNavigate
    \/ ActionSelect
    \/ AdvanceSearch
    \/ DismissOverlay

SpecNav == InitNav /\ [][NextNav]_vars

\* TimestampScanner.scan(line) on the scanner of the file, for any line.
ScanLine ==
    /\ \E line \in SeqsOf(ScanAlphabet, 0, MaxScanLen) :
        LET found == scan_from(timestamp_formats, 1, line)
        IN /\ timestamp_formats' = move_to_front(timestamp_formats, found[2])
           /\ last' = [NoStep EXCEPT !.op = "scan", !.line = line,
                           !.timestamp = found[1]]
    /\ UNCHANGED <<fileVars, indexVars, viewVars, mq, scanVars, watchVars,
                   readerVars, mergeVars, findVars, stopVars, threadVars,
                   errVars, saveVars, seekVars, appending, render_cache,
                   pollVars>>

InitScanner == Scanned(0)

NextScanner == ScanLine

SpecScanner == InitScanner /\ [][NextScanner]_vars

\* ------------------------------------------------------- LineReader.stop

\* (None, -1, 0, 0), the request stop() enqueues; 0 stands for no file.
Sentinel == <<0, -1, 0, 0>>

\* LogLines.get_line for a line that is not cached: LineReader.request_line,
\* whose queue.put waits while the queue is full.
RequestLine ==
    /\ stop = "-"
    /\ \E index \in 0..(LineCount - 1) :
        LET span == index_to_span(index)
            request == <<span[1], index, span[2], span[3]>>
        IN /\ span \notin CacheKeys
           /\ request \notin pending
           /\ Len(rqueue) < QueueCap
           /\ pending' = pending \cup {request}
           /\ rqueue' = Append(rqueue, request)
    /\ last' = NoStep
    /\ UNCHANGED <<fileVars, indexVars, viewVars, mq, scanVars, watchVars,
                   line_cache, cacheVars, mergeVars, findVars,
                   timestamp_formats, stopVars, threadVars, errVars,
                   saveVars, seekVars, appending, render_cache, pollVars>>

\* LineReader.run: `while not self.exit_event.is_set()`
ReaderCheck ==
    /\ reader = "check"
    /\ reader' = IF exit_event THEN "terminated" ELSE "get"
    /\ last' = NoStep
    /\ UNCHANGED <<fileVars, indexVars, viewVars, mq, scanVars, watchVars,
                   readerVars, mergeVars, findVars, timestamp_formats,
                   exit_event, stop, threadVars, errVars, saveVars, seekVars,
                   appending, render_cache, pollVars>>

\* LineReader.run: queue.get(timeout=0.2) raises Empty and the loop continues.
ReaderTimeout ==
    /\ reader = "get"
    /\ rqueue = <<>>
    /\ reader' = "check"
    /\ last' = NoStep
    /\ UNCHANGED <<fileVars, indexVars, viewVars, mq, scanVars, watchVars,
                   readerVars, mergeVars, findVars, timestamp_formats,
                   exit_event, stop, threadVars, errVars, saveVars, seekVars,
                   appending, render_cache, pollVars>>

\* LineReader.run: queue.get returns a request; it leaves the pending set,
\* and the thread breaks out when the exit event is set or the request is
\* the sentinel, else it posts the line.
ReaderGet ==
    /\ reader = "get"
    /\ rqueue # <<>>
    /\ LET request == Head(rqueue)
           f == request[1]
       IN /\ pending' = pending \ {request}
          /\ IF exit_event \/ f = 0
             THEN mq' = mq /\ reader' = "terminated"
             ELSE /\ Len(mq) < MaxMessages
                  /\ mq' = post(mq, <<LineRead(request[2], f, request[3],
                                 request[4],
                                 get_line(files[f], request[3], request[4]))>>)
                  /\ reader' = "check"
    /\ rqueue' = Tail(rqueue)
    /\ last' = NoStep
    /\ UNCHANGED <<fileVars, indexVars, viewVars, scanVars, watchVars,
                   line_cache, cacheVars, mergeVars, findVars,
                   timestamp_formats, exit_event, stop, threadVars, errVars,
                   saveVars, seekVars, appending, render_cache, pollVars>>

\* LineReader.stop: self.exit_event.set()
StopSet ==
    /\ stop = "-"
    /\ exit_event' = TRUE
    /\ stop' = "put"
    /\ last' = NoStep
    /\ UNCHANGED <<fileVars, indexVars, viewVars, mq, scanVars, watchVars,
                   readerVars, mergeVars, findVars, timestamp_formats, reader,
                   threadVars, errVars, saveVars, seekVars, appending,
                   render_cache, pollVars>>

\* LineReader.stop: self.queue.put((None, -1, 0, 0)), which waits while the
\* queue is full.
StopPut ==
    /\ stop = "put"
    /\ Len(rqueue) < QueueCap
    /\ rqueue' = Append(rqueue, Sentinel)
    /\ stop' = "join"
    /\ last' = NoStep
    /\ UNCHANGED <<fileVars, indexVars, viewVars, mq, scanVars, watchVars,
                   pending, line_cache, cacheVars, mergeVars, findVars,
                   timestamp_formats, exit_event, reader, threadVars, errVars,
                   saveVars, seekVars, appending, render_cache, pollVars>>

\* LineReader.stop: self.join()
StopJoin ==
    /\ stop = "join"
    /\ reader = "terminated"
    /\ stop' = "returned"
    /\ last' = NoStep
    /\ UNCHANGED <<fileVars, indexVars, viewVars, mq, scanVars, watchVars,
                   readerVars, mergeVars, findVars, timestamp_formats,
                   exit_event, reader, threadVars, errVars, saveVars,
                   seekVars, appending, render_cache, pollVars>>

InitStop == Scanned(MaxStopLen)

\* The line reader thread, the engine requesting lines and handling those
\* read, and stop().
NextStop ==
    \/ RequestLine
    \/ ReaderCheck
    \/ ReaderTimeout
    \/ ReaderGet
    \/ OnLineRead
    \/ StopSet
    \/ StopPut
    \/ StopJoin

\* The reader thread and the thread in stop() keep running.
SpecStop ==
    /\ InitStop
    /\ [][NextStop]_vars
    /\ WF_vars(ReaderCheck)
    /\ WF_vars(ReaderTimeout)
    /\ WF_vars(ReaderGet)
    /\ WF_vars(OnLineRead)
    /\ WF_vars(StopPut)
    /\ WF_vars(StopJoin)

\* ------------------------------------------- the watcher thread, closing

\* SelectorWatcher.run up to the read: the loop's test and the test after
\* select() are passed and a readable descriptor is at hand, or the exit
\* event is seen and the thread ends.
WatcherSelect ==
    /\ wthread = "select"
    /\ watcher_exit \/ (watching /\ wpos < Len(files[1]))
    /\ wthread' = IF watcher_exit THEN "terminated" ELSE "ready"
    /\ last' = NoStep
    /\ UNCHANGED <<fileVars, indexVars, viewVars, mq, scanVars, watchVars,
                   readerVars, mergeVars, findVars, timestamp_formats,
                   stopVars, watcher_exit, errors, other_lag, errVars,
                   saveVars, seekVars, appending, render_cache, pollVars>>

\* SelectorWatcher.run from the read on: lseek, os.read, scan_chunk and the
\* callback.
WatcherReadReady ==
    /\ wthread = "ready"
    /\ size_changed_pass
    /\ wthread' = "select"
    /\ UNCHANGED <<fileVars, indexVars, viewVars, scanVars, watching,
                   line_cache, cacheVars, mergeVars, findVars,
                   timestamp_formats, stopVars, watcher_exit, errors,
                   other_lag, errVars, saveVars, seekVars, appending,
                   render_cache, pollVars>>

\* SelectorWatcher.close: the exit event is set and close returns.
WatcherClose ==
    /\ ~watcher_exit
    /\ watcher_exit' = TRUE
    /\ last' = NoStep
    /\ UNCHANGED <<fileVars, indexVars, viewVars, mq, scanVars, watchVars,
                   readerVars, mergeVars, findVars, timestamp_formats,
                   stopVars, wthread, errors, other_lag, errVars, saveVars,
                   seekVars, appending, render_cache, pollVars>>

InitClose == Scanned(MaxInitLen)

\* The watcher thread step by step, a growing file, the engine's handler
\* and close().
NextClose ==
    \/ Grow(MaxLen)
    \/ WatcherSelect
    \/ WatcherReadReady
    \/ WatcherClose
    \/ OnNewBreaks

SpecClose == InitClose /\ [][NextClose]_vars

\* ------------------------------------------- the watcher thread, errors

FileError == [type |-> "FileError"]

\* A mutant of deregister: the file stays registered.
deregister_never(registered) == registered

\* `self._file_descriptors.pop(fileno, None)` (and selector.unregister): the
\* file is no longer registered.
deregister(registered) == FALSE

\* One pass of the watcher's run where lseek or os.read raises for the file:
\* the error callback watch_error posts FileError and the file is
\* deregistered; the thread goes on with its loop.
WatcherError ==
    /\ watching
    /\ wthread = "select"
    /\ ~watcher_exit
    /\ errors < MaxErrors
    /\ Len(mq) < MaxMessages
    /\ mq' = post(mq, <<FileError>>)
    /\ watching' = deregister(watching)
    /\ errors' = errors + 1
    /\ last' = [NoStep EXCEPT !.op = "watch_error", !.breaks = line_breaks[1],
                              !.count0 = line_count]
    /\ UNCHANGED <<fileVars, indexVars, viewVars, scanVars, wpos, delivered,
                   readerVars, mergeVars, findVars, timestamp_formats,
                   stopVars, watcher_exit, wthread, other_lag, errVars,
                   saveVars, seekVars, appending, render_cache, pollVars>>

\* FileError has no handler in LogLines or its ancestors (and does not
\* bubble): the message is taken from the queue and dropped.
OnFileError ==
    /\ mq # <<>>
    /\ Head(mq).type = "FileError"
    /\ mq' = Tail(mq)
    /\ last' = NoStep
    /\ UNCHANGED <<fileVars, indexVars, viewVars, scanVars, watchVars,
                   readerVars, mergeVars, findVars, timestamp_formats,
                   stopVars, threadVars, errVars, saveVars, seekVars,
                   appending, render_cache, pollVars>>

\* The file of another view, registered with the same watcher, grows.
GrowOther ==
    /\ other_lag = 0
    /\ other_lag' = 1
    /\ last' = NoStep
    /\ UNCHANGED <<fileVars, indexVars, viewVars, mq, scanVars, watchVars,
                   readerVars, mergeVars, findVars, timestamp_formats,
                   stopVars, watcher_exit, wthread, errors, errVars,
                   saveVars, seekVars, appending, render_cache, pollVars>>

\* One pass of the watcher's run over the other file: its bytes are read and
\* its own view's callback is called.
WatcherReadOther ==
    /\ other_lag = 1
    /\ wthread = "select"
    /\ ~watcher_exit
    /\ other_lag' = 0
    /\ last' = [NoStep EXCEPT !.op = "other_changed", !.errors0 = errors]
    /\ UNCHANGED <<fileVars, indexVars, viewVars, mq, scanVars, watchVars,
                   readerVars, mergeVars, findVars, timestamp_formats,
                   stopVars, watcher_exit, wthread, errors, errVars,
                   saveVars, seekVars, appending, render_cache, pollVars>>

InitWatchError == Scanned(MaxInitLen)

\* The watcher serving two files, one of which may fail to be read, and the
\* engine's handlers.
NextWatchError ==
    \/ Grow(MaxLen)
    \/ WatcherRead
    \/ WatcherError
    \/ GrowOther
    \/ WatcherReadOther
    \/ OnNewBreaks
    \/ OnFileError

\* The watcher thread keeps running.
SpecWatchError ==
    /\ InitWatchError
    /\ [][NextWatchError]_vars
    /\ WF_vars(WatcherReadOther)

InitWatch == Scanned(MaxInitLen)

\* The watcher of a scanned file that grows: each pass of its thread reads
\* what was appended and calls back, and the engine handles the NewBreaks.
NextWatch ==
    \/ Grow(MaxLen)
    \/ WatcherRead
    \/ OnNewBreaks

\* The watcher's thread keeps running and its callback returns: a pass over
\* a descriptor that has bytes to read is eventually taken.
SpecWatch == InitWatch /\ [][NextWatch]_vars /\ WF_vars(WatcherRead)

InitSeek == Scanned(MaxInitLen)

\* A scanned file that grows, the polling watcher and callers of get_raw on
\* the path without os.pread, up to the MaxMessages-th growth callback (the
\* engine's handling of the messages is left out).
NextSeek ==
    \/ Grow(MaxLen)
    \/ GetRawSeek
    \/ GetRawRead
    \/ GetRawRestore
    \/ PollSeek
    \/ PollRead

SpecSeek == InitSeek /\ [][NextSeek]_vars

\* LogLines.__init__ for two files shown merged.
InitMergeOver(absent, output) ==
    /\ files \in [{1, 2} -> SeqsOf(MergeAlphabet, 0, MaxMergeLen)]
    /\ size = [f \in {1, 2} |-> 0]
    /\ compressed = FALSE
    /\ temp = 0
    /\ file_descriptors = <<>>
    /\ poll_thread = PollIdle
    /\ fd_size = [f \in PollFiles |-> 0]
    /\ fd_position = [f \in PollFiles |-> 0]
    /\ fd_notified = [f \in PollFiles |-> 0]
    /\ render_cache = {}
    /\ appending = FALSE
    /\ raw = NoRaw
    /\ poll = NoPoll
    /\ save_merge \in output
    /\ saver = NoSave
    /\ out_file = NoFile
    /\ save_note = "-"
    /\ missing \in absent
    /\ notified = {}
    /\ watcher_exit = FALSE
    /\ wthread = "select"
    /\ errors = 0
    /\ other_lag = 0
    /\ exit_event = FALSE
    /\ reader = "check"
    /\ stop = "-"
    /\ timestamp_formats = TIMESTAMP_FORMATS
    /\ show_find = FALSE
    /\ find = <<>>
    /\ regex = FALSE
    /\ case_sensitive = FALSE
    /\ merge = FALSE
    /\ merge_lines = <<>>
    /\ line_breaks = [f \in {1, 2} |-> <<>>]
    /\ line_count = 0
    /\ scanned_size = 0
    /\ scan_start = 0
    /\ tail = FALSE
    /\ pointer_line = None
    /\ vheight = 0
    /\ pending_count = 0
    /\ mq = <<>>
    /\ worker = "idle"
    /\ cancelled = FALSE
    /\ gen = [file |-> 1, position |-> 0, line_no |-> 0, yielded |-> FALSE]
    /\ watching = FALSE
    /\ wpos = 0
    /\ delivered = {}
    /\ rqueue = <<>>
    /\ pending = {}
    /\ line_cache = {}
    /\ text_cache = {}
    /\ installed = {}
    /\ last = NoStep

\* The merge of two files: the scan worker and the engine's handlers.
NextMerge ==
    \/ MergeOpen
    \/ MergeBatch
    \/ MergeFinish
    \/ CancelScan
    \/ OnScanProgress
    \/ OnScanComplete

\* LogLines.__init__ for two files that can be opened.
InitMerge == InitMergeOver({{}}, {FALSE})

SpecMerge == InitMerge /\ [][NextMerge]_vars

\* The same where any of the files may fail to open.
InitMergeOpen == InitMergeOver(SUBSET {1, 2}, {FALSE})

SpecMergeOpen == InitMergeOpen /\ [][NextMerge]_vars

\* The merge of two files with the worker followed one statement at a time,
\* as the engine's thread can see it.
NextMergeRows ==
    \/ MergeOpen
    \/ MergeRowMeta
    \/ MergeRowBreak
    \/ MergeFinish
    \/ CancelScan
    \/ OnScanProgress
    \/ OnScanComplete

SpecMergeRows == InitMerge /\ [][NextMergeRows]_vars

\* A merge started with --output-merge: the scan, then the save.
InitSave == InitMergeOver({{}}, {TRUE})

NextSave ==
    \/ NextMerge
    \/ OnCallback
    \/ SaveOpen
    \/ SaveWrite
    \/ SaveEnd
    \/ SaveFails

SpecSave == InitSave /\ [][NextSave]_vars

\* ------------------------------------------------------------- properties

\* The number of newline bytes of data.
NumNL(data) == Cardinality({i \in 1..Len(data) : data[i] = NL})

EndsWithNL(data) == data # <<>> /\ data[Len(data)] = NL

\* The lines of data: the texts between newline bytes, and the text after
\* the last newline byte when it is not empty.
RECURSIVE FileLines(_)
FileLines(data) ==
    IF data = <<>> THEN <<>>
    ELSE LET line_bytes == readline(data, 0)
             text == IF EndsWithNL(line_bytes)
                     THEN SubSeq(line_bytes, 1, Len(line_bytes) - 1)
                     ELSE line_bytes
         IN <<decode(text)>> \o FileLines(SubSeq(data, Len(line_bytes) + 1, Len(data)))

\* get_line_from_index_blocking(i) + '\n' for i = 0 .. n-1, concatenated.
RECURSIVE ConcatLines(_)
ConcatLines(n) ==
    IF n = 0 THEN <<>>
    ELSE ConcatLines(n - 1) \o get_line_from_index_blocking(n - 1) \o <<NL>>

StrictlyIncreasing(s) == \A i \in 1..(Len(s) - 1) : s[i] < s[i + 1]

\* ScanComplete of an uncancelled scan of the single file has just been handled.
ScanCompleted == SingleFile /\ last.op = "scan_complete" /\ ~cancelled

\* A tail NewBreaks with at least one offset has just been handled with tail
\* active in single-file mode.
TailExtended ==
    SingleFile /\ last.op = "tail_breaks" /\ last.tail0 /\ last.k >= 1

\* C1: after ScanComplete of an uncancelled scan of a single file, the lines
\* 0 .. line_count-1, each followed by a newline, concatenated in order are the
\* bytes of the scanned file, give or take one final newline.
C1_IndexCompleteness ==
    ScanCompleted =>
        LET out == ConcatLines(LineCount)
        IN \/ out = decode(Mapped(1))
           \/ out = decode(Mapped(1)) \o <<NL>>
           \/ out \o <<NL>> = decode(Mapped(1))

C1_Witness ==
    /\ ScanCompleted
    /\ LineCount >= 2
    /\ NumNL(Mapped(1)) >= 1
    /\ ~EndsWithNL(Mapped(1))
    /\ Mapped(1)[1] # NL

\* C2: for a single file that ends with a newline and holds n >= 1 newline
\* bytes, after ScanComplete is handled line_count = n and line i is the i-th
\* line of the file.
C2_TerminatedFileLineCount ==
    (ScanCompleted /\ EndsWithNL(Mapped(1))) =>
        /\ line_count = NumNL(Mapped(1))
        /\ \A i \in 0..(line_count - 1) :
              get_line_from_index_blocking(i) = FileLines(Mapped(1))[i + 1]

\* C3: for a non-empty single file whose final byte is not a newline, the
\* scan emits the file's size as a break, so after ScanComplete line_count is
\* the number of newline bytes plus one and the last line is the unterminated
\* trailing text.
C3_SyntheticBreak ==
    (ScanCompleted /\ Mapped(1) # <<>> /\ ~EndsWithNL(Mapped(1))) =>
        LET lines == FileLines(Mapped(1))
        IN /\ line_breaks[1] # <<>>
           /\ line_breaks[1][Len(line_breaks[1])] = size[1]
           /\ line_count = NumNL(Mapped(1)) + 1
           /\ get_line_from_index_blocking(line_count - 1) = lines[Len(lines)]

C3_Witness ==
    /\ ScanCompleted
    /\ NumNL(Mapped(1)) >= 1
    /\ ~EndsWithNL(Mapped(1))
    /\ line_count = 2
    /\ get_line_from_index_blocking(1) = <<97>>

\* C4: in single-file mode, in every state after ScanComplete has been
\* handled, whatever tail NewBreaks followed, the file's break vector is
\* strictly increasing.
C4_BreaksStrictlyIncreasing ==
    (SingleFile /\ watching) => StrictlyIncreasing(line_breaks[1])

\* C5: with tail active in single-file mode, handling a tail NewBreaks that
\* carries k >= 1 offsets increases line_count by exactly k when the break
\* vector was not empty, and sets line_count to k when it was empty (the
\* state after the scan of an empty file, where line_count is 1).
C5_TailExtensionCount ==
    TailExtended =>
        line_count = IF last.breaks0 = 0 THEN last.k ELSE last.count0 + last.k

C5_Witness == TailExtended /\ last.breaks0 >= 1 /\ last.k = 2

\* C5 as stated: line_count increases by exactly k from any state, the state
\* after the scan of an empty file included.
C5_AsStated == TailExtended => line_count = last.count0 + last.k

\* C6: with tail active and pointer_line set, after a tail NewBreaks with k
\* offsets is handled the pointer is as far from the end as it was before.
C6_PointerDistance ==
    (TailExtended /\ last.breaks0 >= 1 /\ last.pointer0 # None) =>
        /\ pointer_line # None
        /\ line_count - pointer_line = last.count0 - last.pointer0

\* C7: after an uncancelled scan of a single file and append-only growth that
\* the watcher has delivered as tail NewBreaks with tail active, line_count is
\* the number of lines of the grown file and line i is its i-th line (stated
\* for a file that ended with a newline when scanned and ends with one now).
C7_CompletenessAcrossGrowth ==
    (/\ TailExtended
     /\ ~cancelled
     /\ tail
     /\ mq = <<>>
     /\ wpos = Len(files[1])
     /\ EndsWithNL(Mapped(1))
     /\ EndsWithNL(files[1])) =>
        /\ line_count = Len(FileLines(files[1]))
        /\ \A i \in 0..(line_count - 1) :
              get_line_from_index_blocking(i) = FileLines(files[1])[i + 1]

\* The merge rows are in (timestamp, line_no) order.
MergeSorted ==
    \A i \in 1..(Len(merge_lines) - 1) :
        ~RowLess(merge_lines[i + 1], merge_lines[i])

\* C8: in merge mode, in every state after ScanComplete has been posted, the
\* merge index is sorted by timestamp, with line_no breaking ties.
C8_MergeOrdering ==
    (merge /\ worker = "done") => MergeSorted

\* The byte range of line n of file f, from f's own break vector.
LineSpan(f, n) ==
    <<f, IF n = 0 THEN 0 ELSE line_breaks[f][n], line_breaks[f][n + 1]>>

\* C9: in merge mode after ScanComplete has been handled, index_to_span of a
\* merged row (t, n, f) is the byte range of line n of f (from 0, or from f's
\* break n-1, to f's break n) and the row reads as that line's text.
C9_MergeSpan ==
    (merge /\ last.op = "scan_complete") =>
        \A r \in 1..Len(merge_lines) :
            LET n == merge_lines[r][2]
                f == merge_lines[r][3]
            IN /\ index_to_span(r - 1) = LineSpan(f, n)
               /\ get_line_from_index_blocking(r - 1) = FileLines(Mapped(f))[n + 1]

\* C10: at no time does the line reader's queue hold two requests for the
\* same span key (file, start, end).
C10_AtMostOnePending ==
    \A i, j \in 1..Len(rqueue) :
        i # j => <<rqueue[i][1], rqueue[i][3], rqueue[i][4]>>
                 # <<rqueue[j][1], rqueue[j][3], rqueue[j][4]>>

\* get_text has just been called for a key whose LineRead on_line_read had
\* handled, for the first time since.
TextOfInstalled == last.op = "get_text" /\ last.fresh

\* C11: once a LineRead for a key has been handled, the next get_text for that
\* key returns the text of the installed line and enqueues no request, when
\* the call is blocking or the caches were not cleared in between.
C11_CacheCoherency ==
    (TextOfInstalled /\ (last.block \/ ~last.cleared0)) =>
        /\ last.line = parse(last.line0)
        /\ ~last.requested

C11_Witness ==
    /\ TextOfInstalled
    /\ ~last.block
    /\ ~last.cleared0
    /\ last.line = <<97>>

\* C11 as stated: whatever happened between the LineRead and the get_text.
C11_AsStated ==
    TextOfInstalled =>
        /\ last.line = parse(last.line0)
        /\ ~last.requested

\* A step of the scan worker's thread in merge mode.
MergeWorkerStep == MergeOpen \/ MergeBatch \/ MergeFinish

\* C12: the break vectors, the merge vector, the caches and the pending set
\* are read and written by the engine thread only; here: no step of the merge
\* worker's thread changes the break vectors or the merge vector.
C12_SharedResourcePolicy ==
    [][MergeWorkerStep => UNCHANGED <<line_breaks, merge_lines>>]_vars

ScanCompleteQueued == \E i \in 1..Len(mq) : mq[i].type = "ScanComplete"

\* C15: a scan worker that was cancelled after it started has posted a
\* ScanComplete message when it has terminated (the message is queued, or it
\* has been handled and the single file is registered with the watcher).
C15_CancelledScanCompletes ==
    (SingleFile /\ cancelled /\ worker = "done") =>
        (ScanCompleteQueued \/ watching)

\* A NewBreaks or ScanComplete message has just been handled.
BreaksHandled == last.op \in {"scan_breaks", "tail_breaks", "scan_complete"}

\* on_new_breaks recomputed the count: the message was not a tail append, or
\* tail mode was active, or the break vector was empty.
CountRecomputed ==
    last.op = "tail_breaks" => (last.tail0 \/ last.breaks0 = 0)

\* C16: in single-file mode, after a handled ScanComplete, and after a handled
\* NewBreaks that is not a tail append or that arrives with tail mode active
\* or into an empty break vector, line_count is max(1, len(breaks)); in merge
\* mode line_count is len(merge_lines).
C16_LineCountAfterMessage ==
    /\ (SingleFile /\ BreaksHandled /\ CountRecomputed) =>
            LineCount = Max(1, Len(line_breaks[1]))
    /\ (merge /\ BreaksHandled) => LineCount = Len(merge_lines)

C16_Witness ==
    /\ SingleFile
    /\ last.op = "tail_breaks"
    /\ last.tail0
    /\ last.k >= 1
    /\ LineCount = Len(line_breaks[1])
    /\ LineCount >= 2

\* C16 as stated: after every handled NewBreaks or ScanComplete, whether or
\* not tail mode is active.
C16_AsStated ==
    (SingleFile /\ BreaksHandled) => LineCount = Max(1, Len(line_breaks[1]))

\* C17: when a tail NewBreaks with k >= 1 offsets is handled with tail mode
\* off, the count of the PendingLines message posted is the length of the
\* break vector after the k offsets are appended, minus line_count.
C17_PendingLinesCount ==
    (SingleFile /\ last.op = "tail_breaks" /\ ~last.tail0 /\ last.k >= 1) =>
        pending_count = Len(line_breaks[1]) - line_count

\* advance_search(direction) has just run with the find dialog shown and a
\* pointer set.
Searched(direction) ==
    /\ SingleFile
    /\ show_find
    /\ last.op = "advance_search"
    /\ last.direction = direction
    /\ last.pointer0 # None

\* The lines beyond line i in the direction that match the find criterion.
Matches(i, direction) ==
    {j \in 0..(LineCount - 1) :
        /\ IF direction = 1 THEN j > i ELSE j < i
        /\ check_match(get_line_from_index_blocking(j))}

\* C18: with the find dialog shown and pointer_line = i, advance_search(+1)
\* sets pointer_line to the smallest j > i below line_count whose line
\* satisfies check_match, advance_search(-1) to the largest such j < i; when
\* there is none the pointer is unchanged and the bell is rung.
C18_SearchCorrectness ==
    \A direction \in {1, -1} :
        Searched(direction) =>
            LET found == Matches(last.pointer0, direction)
            IN IF found = {}
               THEN pointer_line = last.pointer0 /\ last.bell
               ELSE /\ pointer_line = first_of(found, direction)
                    /\ ~last.bell

\* action_navigate(steps, unit) has just run from a line that has a
\* timestamp.
Navigated ==
    /\ SingleFile
    /\ last.op = "navigate"
    /\ get_timestamp(last.pointer0) # None

\* The lines beyond i0 in the walking direction whose timestamp has crossed
\* the target.
Crossing(i0, steps, unit) ==
    LET target == get_timestamp(i0) + timedelta(steps, unit)
    IN {j \in 0..(LineCount - 1) :
            /\ IF steps > 0 THEN j > i0 ELSE j < i0
            /\ get_timestamp(j) # None
            /\ IF steps > 0 THEN get_timestamp(j) >= target
               ELSE get_timestamp(j) <= target}

C20_IndexClamped ==
    ScanCompleted =>
        \A i \in (-2)..(LineCount + 1) :
            index_to_span(i) = index_to_span(clamp(i, 0, LineCount - 1))

\* C21: whatever lines the scanner has scanned before, scan(line) returns
\* what a scanner with the formats in their original order returns.
C21_ScannerDeterminism ==
    last.op = "scan" =>
        last.timestamp = scan_from(TIMESTAMP_FORMATS, 1, last.line)[1]

\* LogFile.can_tail: set by open for an ordinary file, cleared by
\* open_compressed.
LogFileCanTail == ~compressed /\ worker # "idle"

\* C22: a file is registered with the watcher only when the engine shows
\* exactly one file and that file's can_tail flag is true (it was opened by
\* the ordinary path, not through a decompressed temporary file).
C22_TailRegistration == watching => (SingleFile /\ LogFileCanTail)

\* C23: LineReader.stop always returns: once it is called, whatever the
\* request queue holds and wherever the reader thread is, the reader thread
\* terminates and stop completes its join.
C23_StopReturns == (stop # "-") ~> (stop = "returned")

\* C24: when close() on the watcher has returned, the watcher thread has
\* terminated and no growth callback is invoked afterwards.
C24_CloseJoins ==
    /\ watcher_exit => wthread = "terminated"
    /\ last.op = "size_changed" => ~last.closed0

\* C25: when reading a watched file raises, its error callback is called
\* once and the file is deregistered: no later growth or error callback is
\* made for it, the break index is as it was before the error, and another
\* watched file that has grown is still served.
C25_WatcherErrorHandling ==
    /\ [](errors <= 1)
    /\ [](errors >= 1 => ~watching)
    /\ [](last.op = "size_changed" => last.errors0 = 0)
    /\ [](last.op = "watch_error" =>
            (line_breaks[1] = last.breaks /\ line_count = last.count0))
    /\ (errors >= 1 /\ other_lag = 1) ~> (other_lag = 0)

C25_Witness ==
    /\ errors = 1
    /\ last.op = "other_changed"
    /\ last.errors0 = 1
    /\ line_breaks[1] # <<>>

\* C26: if opening the single file fails, the scan worker raises an error
\* notification and returns: no NewBreaks, ScanProgress or ScanComplete is
\* posted, the break index stays empty and the file is never registered with
\* the watcher.
C26_OpenFailureTerminal ==
    (SingleFile /\ 1 \in missing) =>
        /\ mq = <<>>
        /\ line_breaks[1] = <<>>
        /\ ~watching
        /\ worker \in {"idle", "done"}
        /\ worker = "done" => 1 \in notified

C26_Witness == SingleFile /\ 1 \in missing /\ worker = "done" /\ 1 \in notified

\* The line numbers of the merge rows of file f.
RowLines(f) == {merge_lines[r][2] : r \in {q \in 1..Len(merge_lines) : merge_lines[q][3] = f}}

\* The number of merge rows of file f.
RowCount(f) == Cardinality({r \in 1..Len(merge_lines) : merge_lines[r][3] = f})

\* An uncancelled merge scan has terminated.
MergeScanned == merge /\ worker = "done" /\ ~cancelled

\* C27: in merge mode every file whose open fails is reported by a
\* notification, the scan goes on and posts ScanComplete when it terminates,
\* and the merge index of an uncancelled scan then holds exactly one row for
\* each line of each file that opened and no row of a file that failed.
C27_MergeToleratesOpenFailures ==
    /\ [](MergeScanned =>
            /\ notified = missing
            /\ \A f \in FileIds :
                 IF f \in missing
                 THEN RowCount(f) = 0
                 ELSE /\ RowCount(f) = Len(FileLines(files[f]))
                      /\ RowLines(f) = 0..(Len(FileLines(files[f])) - 1))
    /\ [][(worker = "scanning" /\ worker' = "done") =>
            (mq' # <<>> /\ mq'[Len(mq')].type = "ScanComplete")]_vars

C27_Witness ==
    /\ MergeScanned
    /\ missing = {1}
    /\ files[1] # <<>>
    /\ Len(FileLines(files[2])) >= 2
    /\ RowCount(2) >= 2
    /\ ScanCompleteQueued

\* C28: when save has ended without an error, the output file holds one line
\* for each of the n rows of the merged stream, the k-th being
\* get_line_from_index_blocking(k) followed by a newline, rows whose text is
\* empty included.
C28_SaveWritesEveryRow ==
    (save_note = "saved") =>
        /\ saver.line_count = Len(merge_lines)
        /\ out_file.data = ConcatLines(Len(merge_lines))

\* C29: when save has ended with the error notification, no file written in
\* part is left at the target path.
C29_SaveAllOrNothing ==
    (save_note = "error") => ~out_file.exists

\* The texts of the lines of the view.
LineTexts == {get_line_from_index_blocking(j) : j \in 0..(LineCount - 1)}

\* C30: with regex set and a valid pattern, check_match(line) is true for
\* every line some substring of which the pattern matches (without regard to
\* case unless case_sensitive is set), wherever in the line the match starts.
C30_RegexMatchesAnywhere ==
    (regex /\ find # <<>> /\ ~re_error(find)) =>
        \A line \in LineTexts :
            matches_anywhere(find, line, ~case_sensitive) => check_match(line)

\* The requests request_line can be given for a scanned file of the model.
Requests ==
    {<<1, index, start, end>> : index \in 0..MaxStopLen,
                                start \in 0..MaxStopLen, end \in 0..MaxStopLen}

\* The request has left the queue and the pending set and a LineRead with its
\* file, index, start and end is queued for the engine.
Answered(request) ==
    /\ request \notin pending
    /\ \A i \in 1..Len(rqueue) : rqueue[i] # request
    /\ \E i \in 1..Len(mq) :
         /\ mq[i].type = "LineRead"
         /\ <<mq[i].log_file, mq[i].index, mq[i].start, mq[i].end>> = request

\* C31: a request accepted by request_line (it is pending) is eventually
\* dequeued, removed from the pending set and answered by a LineRead message
\* with the same file, index, start and end, unless shutdown is signalled.
C31_LineReaderLiveness ==
    /\ [](pending \subseteq Requests)
    /\ \A request \in Requests :
         (request \in pending /\ ~exit_event)
             ~> (Answered(request) \/ exit_event)

C31_Witness ==
    /\ ~exit_event
    /\ \E request \in Requests :
         /\ request[2] >= 1
         /\ Answered(request)
         /\ pending # {}

\* C32: without positional read, get_raw and the watcher's tail read of the
\* same descriptor exclude each other: no growth callback is made by a tail
\* read taken between get_raw's seek and its restore, and every callback
\* delivers the bytes that follow those of the callbacks before it, from the
\* size the file was registered with on (none twice, none skipped).
C32_SeekReadExclusion ==
    last.op = "size_changed" =>
        /\ raw.at = "-"
        /\ last.size0 >= size[1]
        /\ last.size <= Len(files[1])
        /\ \A i \in 1..Len(last.breaks) :
              /\ last.breaks[i] \notin last.delivered0
              /\ last.breaks[i] < Len(files[1])
              /\ files[1][last.breaks[i] + 1] = NL
        /\ \A o \in size[1]..(Min(last.size, Len(files[1])) - 1) :
              files[1][o + 1] = NL => o \in delivered

\* A message of the scan worker: ScanProgress, ScanComplete or a NewBreaks
\* that is not a tail append.
ScanMessage(m) ==
    \/ m.type \in {"ScanProgress", "ScanComplete"}
    \/ (m.type = "NewBreaks" /\ ~m.tail)

\* The positions of the queue that hold a ScanComplete.
Completes(queue) == {i \in 1..Len(queue) : queue[i].type = "ScanComplete"}

C34_PointerBounds ==
    pointer_line # None => (0 <= pointer_line /\ pointer_line < LineCount)

\* C35: while the merge scan runs, at every instant at which the engine's
\* thread can read the merge index, each row (t, n, f) of it has its entry in
\* f's break vector, len(breaks[f]) > n.
C35_MergeIndexIntegrity ==
    (merge /\ worker = "scanning") =>
        \A r \in 1..Len(merge_lines) :
            Len(line_breaks[merge_lines[r][3]]) > merge_lines[r][2]

\* C36: a row render_line takes from the render cache is the row rendered
\* under the current values of show_find, regex and case_sensitive: no row
\* rendered before a change of these is served for the same key.
C36_RenderCacheFresh ==
    (last.op = "render_line" /\ last.hit) =>
        last.strip = rendered(last.line, find, show_find, regex, case_sensitive)

\* C37: with the find dialog hidden and the pointer set, advance_search(d)
\* moves the pointer by one line in direction d, and leaves it where it is on
\* line 0 (d = -1) and on the last line (d = +1), whatever the scroll offset.
C37_AdvanceWithoutFind ==
    (last.op = "advance_search" /\ ~show_find /\ last.pointer0 # None) =>
        pointer_line =
            IF \/ (last.direction = -1 /\ last.pointer0 = 0)
               \/ (last.direction = 1 /\ last.pointer0 = LineCount - 1)
            THEN last.pointer0
            ELSE last.pointer0 + last.direction


\* C38: switching tail on in single-file mode shows every line indexed so far
\* (line_count becomes max(1, len(breaks))) and clears the pointer; switching
\* tail off changes neither line_count nor pointer_line.
C38_TailSwitch ==
    [][/\ (SingleFile /\ ~tail /\ tail') =>
             /\ line_count' = Max(1, Len(line_breaks'[1]))
             /\ line_breaks' = line_breaks
             /\ pointer_line' = None
       /\ (tail /\ ~tail') =>
             /\ line_count' = line_count
             /\ pointer_line' = pointer_line]_vars

\* Tail is switched on with lines accrued while it was off and a pointer set.
C38_Witness ==
    /\ last.op = "tail_on"
    /\ last.count0 < line_count
    /\ last.pointer0 # None
    /\ pointer_line = None


\* C39: registering a file with the polling watcher while its thread iterates
\* over the registered descriptors never stops the thread: every registered
\* file goes on being served.
C39_PollWatcherSurvivesAdd == poll_thread.at # "dead"

====
